---------------------------- MODULE Spec2Model ----------------------------
(***************************************************************************)
(* Model of the search-request compilers of PoC-14:                        *)
(*   - PDQm/app/pdqm_where.py : partial-date resolver, PDQmWhereBuilder    *)
(*   - PDQm/app/main.py       : the Patient search endpoint                *)
(*   - LDAP/main.py           : base-DN discovery cache, _connect,         *)
(*                              hpd_search                                 *)
(* Strings are sequences of one-character strings; a date is <<y, m, d>>.  *)
(***************************************************************************)
EXTENDS Integers, Sequences, FiniteSets, TLC

(***************************************************************************)
(* Bounds of the model                                                     *)
(***************************************************************************)
\* requests served one after the other by the sequential directory model
MaxCalls == 3

(***************************************************************************)
(* Characters and strings                                                  *)
(***************************************************************************)
\* Python's None, comparable with strings (no string is <<"None">>)
None == <<"None">>

\* "\n" is the line feed, "ar3" stands for U+0663 (ARABIC-INDIC DIGIT THREE),
\* which Python's \d and int() accept as the digit 3.
AsciiDigits == {"0", "1", "2", "3", "4", "5", "6", "7", "8", "9"}

IsDigit(c) == c \in AsciiDigits \cup {"ar3"}

DigitVal(c) ==
    CASE c = "0" -> 0 [] c = "1" -> 1 [] c = "2" -> 2 [] c = "3" -> 3
      [] c = "4" -> 4 [] c = "5" -> 5 [] c = "6" -> 6 [] c = "7" -> 7
      [] c = "8" -> 8 [] c = "9" -> 9 [] c = "ar3" -> 3

RECURSIVE IntOf(_)
IntOf(s) == IF s = <<>> THEN 0
            ELSE 10 * IntOf(SubSeq(s, 1, Len(s) - 1)) + DigitVal(s[Len(s)])

IsSpace(c) == c \in {" ", "\n", "\t"}

RECURSIVE LStrip(_)
LStrip(s) == IF s # <<>> /\ IsSpace(s[1]) THEN LStrip(Tail(s)) ELSE s

RECURSIVE RStrip(_)
RStrip(s) == IF s # <<>> /\ IsSpace(s[Len(s)])
             THEN RStrip(SubSeq(s, 1, Len(s) - 1)) ELSE s

\* str.strip()
Strip(s) == RStrip(LStrip(s))

\* s[:n] and s[n:]
Take(s, n) == SubSeq(s, 1, IF n < Len(s) THEN n ELSE Len(s))
Drop(s, n) == SubSeq(s, n + 1, Len(s))

(***************************************************************************)
(* datetime.date as the resolver uses it                                   *)
(***************************************************************************)
IsLeap(y) == (y % 4 = 0) /\ ((y % 100 # 0) \/ (y % 400 = 0))

DaysInMonth(y, m) ==
    IF m = 2 THEN (IF IsLeap(y) THEN 29 ELSE 28)
    ELSE IF m \in {4, 6, 9, 11} THEN 30 ELSE 31

\* date(y, m, d) raises ValueError unless this holds (MINYEAR 1, MAXYEAR 9999)
DateValid(y, m, d) ==
    /\ 1 <= y /\ y <= 9999
    /\ 1 <= m /\ m <= 12
    /\ 1 <= d /\ d <= DaysInMonth(y, m)

DateLt(a, b) ==
    \/ a[1] < b[1]
    \/ a[1] = b[1] /\ a[2] < b[2]
    \/ a[1] = b[1] /\ a[2] = b[2] /\ a[3] < b[3]

DateGe(a, b) == ~DateLt(a, b)

\* the calendar day after a valid date (may leave the range of date)
NextDay(dt) ==
    IF dt[3] < DaysInMonth(dt[1], dt[2]) THEN <<dt[1], dt[2], dt[3] + 1>>
    ELSE IF dt[2] < 12 THEN <<dt[1], dt[2] + 1, 1>>
    ELSE <<dt[1] + 1, 1, 1>>

NoDate == <<0, 0, 0>>
Range(s, e) == [kind |-> "ok", start |-> s, end |-> e]
Raise(k) == [kind |-> k, start |-> NoDate, end |-> NoDate]

(***************************************************************************)
(* pdqm_where.py: _date_re and _parse_fhir_date_bounds                     *)
(***************************************************************************)
AllDigits(s) == \A i \in 1..Len(s) : IsDigit(s[i])

\* '$' of re also matches just before one trailing line feed
DateReBody(s) ==
    IF s # <<>> /\ s[Len(s)] = "\n" THEN SubSeq(s, 1, Len(s) - 1) ELSE s

\* _date_re.match(s) is not None
DateReMatch(s) ==
    LET b == DateReBody(s) IN
    /\ Len(b) \in {4, 7, 10}
    /\ AllDigits(SubSeq(b, 1, 4))
    /\ Len(b) >= 7 => (b[5] = "-" /\ AllDigits(SubSeq(b, 6, 7)))
    /\ Len(b) = 10 => (b[8] = "-" /\ AllDigits(SubSeq(b, 9, 10)))

\* date(y, m, d) or ValueError, then the continuation
ParseYearOnly(y) ==
    IF ~DateValid(y, 1, 1) THEN Raise("ValueError")
    ELSE IF ~DateValid(y + 1, 1, 1) THEN Raise("ValueError")
    ELSE Range(<<y, 1, 1>>, <<y + 1, 1, 1>>)

ParseYearMonth(y, mo) ==
    IF ~(1 <= mo /\ mo <= 12) THEN Raise("ValueError")
    ELSE IF ~DateValid(y, mo, 1) THEN Raise("ValueError")
    ELSE IF mo = 12
         THEN (IF ~DateValid(y + 1, 1, 1) THEN Raise("ValueError")
               ELSE Range(<<y, 12, 1>>, <<y + 1, 1, 1>>))
         ELSE Range(<<y, mo, 1>>, <<y, mo + 1, 1>>)

\* start + timedelta(days=1) raises OverflowError past date.max
ParseFullDate(y, mo, d) ==
    IF ~DateValid(y, mo, d) THEN Raise("ValueError")
    ELSE LET e == NextDay(<<y, mo, d>>) IN
         IF ~DateValid(e[1], e[2], e[3]) THEN Raise("OverflowError")
         ELSE Range(<<y, mo, d>>, e)

_parse_fhir_date_bounds(s) ==
    IF ~DateReMatch(s) THEN Raise("ValueError")
    ELSE LET b  == DateReBody(s)
             y  == IntOf(SubSeq(b, 1, 4))
         IN IF Len(b) = 4 THEN ParseYearOnly(y)
            ELSE IF Len(b) = 7 THEN ParseYearMonth(y, IntOf(SubSeq(b, 6, 7)))
            ELSE ParseFullDate(y, IntOf(SubSeq(b, 6, 7)), IntOf(SubSeq(b, 9, 10)))


(***************************************************************************)
(* More string helpers (str.lower, in, replace)                            *)
(***************************************************************************)
UpperAZ == <<"A", "B", "C", "D", "E", "F", "G", "H", "I", "J", "K", "L", "M", "N", "O", "P", "Q", "R", "S", "T", "U", "V", "W", "X", "Y", "Z">>
LowerAZ == <<"a", "b", "c", "d", "e", "f", "g", "h", "i", "j", "k", "l", "m", "n", "o", "p", "q", "r", "s", "t", "u", "v", "w", "x", "y", "z">>

LowerChar(c) ==
    IF \E i \in 1..26 : UpperAZ[i] = c
    THEN LowerAZ[CHOOSE i \in 1..26 : UpperAZ[i] = c]
    ELSE c

\* str.lower()
Lower(s) == [i \in 1..Len(s) |-> LowerChar(s[i])]

StartsWith(s, p) == Len(p) <= Len(s) /\ SubSeq(s, 1, Len(p)) = p

\* sub in s
Contains(s, sub) ==
    \E i \in 0..(Len(s) - Len(sub)) : SubSeq(s, i + 1, i + Len(sub)) = sub

\* s.replace(old, new), old not empty
RECURSIVE Replace(_, _, _)
Replace(s, old, new) ==
    IF s = <<>> THEN <<>>
    ELSE IF StartsWith(s, old) THEN new \o Replace(Drop(s, Len(old)), old, new)
    ELSE <<s[1]>> \o Replace(Tail(s), old, new)

(***************************************************************************)
(* LDAP/main.py: settings, discovery cache, _connect, hpd_search           *)
(***************************************************************************)
\* the strings of the settings and of the directory
DN ==
    [ auto |-> <<"a", "u", "t", "o">>,
      AUTO |-> <<"A", "u", "T", "O">>,
      dcHPD |-> <<"d", "c", "=", "H", "P", "D">>,
      dchpd |-> <<"d", "c", "=", "h", "p", "d">>,
      dcex |-> <<"d", "c", "=", "e", "x">>,
      base |-> <<"{", "b", "a", "s", "e", "}">>,
      rdn |-> <<"c", "n", "=", "r">>,
      tmpl |-> <<"c", "n", "=", "r", ",", "{", "b", "a", "s", "e", "}">>,
      fulldn |-> <<"c", "n", "=", "r", ",", "d", "c", "=", "x">> ]

\* Python truthiness of a str | None
Truthy(v) == v # None /\ v # <<>>

\* what the directory may answer to the RootDSE search: no entry, an entry
\* without namingContexts, or an entry with its namingContexts values
RootDseAnswers ==
    { <<>>, << <<>> >>, << << <<>> >> >>,
      << <<DN.dcex>> >>, << <<DN.dcHPD>> >>,
      << <<DN.dcex, DN.dchpd>> >>, << <<DN.dcex, <<"d", "c", "=", "y">> >> >> }

RECURSIVE FirstHpd(_)
FirstHpd(vals) ==
    IF vals = <<>> THEN None
    ELSE IF Lower(vals[1]) = Lower(<<"d", "c", "=", "h", "p", "D">>) THEN vals[1]
    ELSE FirstHpd(Tail(vals))

\* _discover_base_dn looking for dc=HPD in the first position only
DiscoverBaseDnFirstOnly(results) ==
    IF results = <<>> THEN None
    ELSE LET vals == results[1] IN
         IF vals = <<>> THEN None ELSE vals[1]

\* _discover_base_dn, given the result of conn.search
_discover_base_dn(results) ==
    IF results = <<>> THEN None
    ELSE LET vals == results[1] IN
         IF vals = <<>> THEN None
         ELSE IF Len(vals) > 1
              THEN (LET choice == FirstHpd(vals) IN
                    IF Truthy(choice) THEN choice ELSE vals[1])
              ELSE vals[1]

\* settings.ldap_base_dn and settings.ldap_base_dn.lower() != "auto"
IsStaticBase(st) ==
    Truthy(st.ldap_base_dn) /\ Lower(st.ldap_base_dn) # DN.auto

\* needs_discovery of _connect
NeedsDiscovery(st) == Lower(st.ldap_base_dn) = DN.auto

\* needs_base_for_bind of _connect
NeedsBaseForBind(st) ==
    /\ Truthy(st.ldap_bind_dn)
    /\ (Contains(st.ldap_bind_dn, DN.base) \/ ~Contains(st.ldap_bind_dn, <<",">>))

\* _effective_bind_dn with the comma tested before the placeholder
EffectiveBindDnCommaFirst(st, base_dn) ==
    LET dn == st.ldap_bind_dn IN
    IF ~Truthy(dn) THEN None
    ELSE IF ~Contains(dn, <<",">>) THEN dn \o <<",">> \o base_dn
    ELSE IF Contains(dn, DN.base) THEN Replace(dn, DN.base, base_dn)
    ELSE dn

_effective_bind_dn(st, base_dn) ==
    LET dn == st.ldap_bind_dn IN
    IF ~Truthy(dn) THEN None
    ELSE IF Contains(dn, DN.base) THEN Replace(dn, DN.base, base_dn)
    ELSE IF ~Contains(dn, <<",">>) THEN dn \o <<",">> \o base_dn
    ELSE dn

\* verify_api_key checking only a header that was sent
VerifyApiKeyWhenSent(st, x_api_key) ==
    IF Truthy(st.api_key) /\ x_api_key # None /\ x_api_key # st.api_key
    THEN 401 ELSE 0

\* verify_api_key(x_api_key): the status of the HTTPException it raises, or 0
verify_api_key(st, x_api_key) ==
    IF Truthy(st.api_key) /\ x_api_key # st.api_key THEN 401 ELSE 0

\* the except clauses of _connect with every failure answered as a bad gateway
ConnectErrorAlways502(exc) == 502

\* the except clauses of _connect
ConnectErrorStatus(exc) ==
    CASE exc = "LDAPAuthenticationError" -> 502
      [] exc = "LDAPConnectionError"     -> 503
      [] exc = "LDAPError"               -> 502
      [] exc = "OSError"                 -> 503
\* the schemes of settings.ldap_uri
URI ==
    [ sep |-> <<":", "/", "/">>,
      ldap |-> <<"l", "d", "a", "p", ":", "/", "/">>,
      ldaps |-> <<"l", "d", "a", "p", "s", ":", "/", "/">> ]

_normalize_ldap_uri(uri, use_ssl) ==
    LET u == Strip(uri)
        v == IF ~Contains(u, URI.sep)
             THEN (IF use_ssl THEN URI.ldaps ELSE URI.ldap) \o u
             ELSE u
    IN IF use_ssl /\ StartsWith(Lower(v), URI.ldap)
       THEN URI.ldaps \o Drop(v, Len(URI.ldap))
       ELSE v

\* _create_client(use_ssl=..., start_tls=...): LDAPClient(uri, eff_tls) with
\* its certificate policy and CA file; use_ssl and start_tls are the arguments
_create_client(st, use_ssl, start_tls) ==
    [ use_ssl |-> use_ssl,
      start_tls |-> start_tls,
      uri |-> _normalize_ldap_uri(st.ldap_uri, use_ssl),
      tls |-> start_tls,
      cert_policy |-> IF use_ssl \/ start_tls
                      THEN (IF st.ldap_verify_tls THEN "demand" ELSE "never")
                      ELSE "unset",
      ca_cert |-> IF (use_ssl \/ start_tls) /\ Truthy(st.ldap_ca_certs_file)
                  THEN st.ldap_ca_certs_file ELSE None ]

\* _connect with the ldaps:// test left out
ConnectTlsModeIgnoresScheme(st) ==
    LET both == st.ldap_use_ssl /\ st.ldap_start_tls
    IN [ use_ssl |-> IF both THEN FALSE ELSE st.ldap_use_ssl,
         start_tls |-> IF both THEN TRUE ELSE st.ldap_start_tls ]

\* _connect: eff_use_ssl and eff_start_tls as handed to _create_client
ConnectTlsMode(st) ==
    LET uri_raw == Strip(st.ldap_uri)
        tls == IF st.ldap_start_tls /\ StartsWith(Lower(uri_raw), URI.ldaps)
               THEN FALSE ELSE st.ldap_start_tls
        both == st.ldap_use_ssl /\ tls
    IN [ use_ssl |-> IF both THEN FALSE ELSE st.ldap_use_ssl,
         start_tls |-> IF both THEN TRUE ELSE tls ]




(***************************************************************************)
(* PDQm/app/main.py: parameter parsing utilities                           *)
(***************************************************************************)
\* the names of the query parameters
QP ==
    [ id |-> <<"_", "i", "d">>,
      gender |-> <<"g", "e", "n", "d", "e", "r">>,
      family |-> <<"f", "a", "m", "i", "l", "y">>,
      given |-> <<"g", "i", "v", "e", "n">>,
      address |-> <<"a", "d", "d", "r", "e", "s", "s">>,
      address_city |-> <<"a", "d", "d", "r", "e", "s", "s", "-", "c", "i", "t", "y">>,
      address_postalcode |-> <<"a", "d", "d", "r", "e", "s", "s", "-", "p", "o", "s", "t", "a", "l", "c", "o", "d", "e">>,
      address_country |-> <<"a", "d", "d", "r", "e", "s", "s", "-", "c", "o", "u", "n", "t", "r", "y">>,
      telecom |-> <<"t", "e", "l", "e", "c", "o", "m">>,
      identifier |-> <<"i", "d", "e", "n", "t", "i", "f", "i", "e", "r">>,
      birthdate |-> <<"b", "i", "r", "t", "h", "d", "a", "t", "e">>,
      count |-> <<"_", "c", "o", "u", "n", "t">>,
      page |-> <<"_", "p", "a", "g", "e">>,
      format |-> <<"_", "f", "o", "r", "m", "a", "t">> ]
\* the other string literals of patient_search and wants_xml
Lit ==
    [ exact |-> <<":", "e", "x", "a", "c", "t">>,
      xml |-> <<"x", "m", "l">>,
      phone |-> <<"p", "h", "o", "n", "e">>,
      email |-> <<"e", "m", "a", "i", "l">>,
      app_xml |-> <<"a", "p", "p", "l", "i", "c", "a", "t", "i", "o", "n", "/", "x", "m", "l">>,
      d20 |-> <<"2", "0">>,
      d1 |-> <<"1">> ]
FHIR_JSON == <<"a", "p", "p", "l", "i", "c", "a", "t", "i", "o", "n", "/", "f", "h", "i", "r", "+", "j", "s", "o", "n">>
FHIR_XML == <<"a", "p", "p", "l", "i", "c", "a", "t", "i", "o", "n", "/", "f", "h", "i", "r", "+", "x", "m", "l">>

EndsWith(s, suf) ==
    Len(suf) <= Len(s) /\ SubSeq(s, Len(s) - Len(suf) + 1, Len(s)) = suf

\* s.split(c)
RECURSIVE SplitOn(_, _)
SplitOn(s, c) ==
    IF \A i \in 1..Len(s) : s[i] # c THEN <<s>>
    ELSE LET i == CHOOSE k \in 1..Len(s) :
                     s[k] = c /\ \A j \in 1..(k - 1) : s[j] # c
         IN <<SubSeq(s, 1, i - 1)>> \o SplitOn(SubSeq(s, i + 1, Len(s)), c)

\* s.split(c, 1) of a string that contains c
SplitFirst(s, c) ==
    LET i == CHOOSE k \in 1..Len(s) : s[k] = c /\ \A j \in 1..(k - 1) : s[j] # c
    IN <<SubSeq(s, 1, i - 1), SubSeq(s, i + 1, Len(s))>>

RECURSIVE Flatten(_)
Flatten(ss) == IF ss = <<>> THEN <<>> ELSE ss[1] \o Flatten(Tail(ss))

NonEmpty(x) == x # <<>>

_split_or_list(value) == SelectSeq(SplitOn(value, ","), NonEmpty)

\* [x.strip() for x in s.split(",") if x.strip()]
StripSplit(s) ==
    LET parts == SplitOn(s, ",")
        stripped == [i \in 1..Len(parts) |-> Strip(parts[i])]
    IN SelectSeq(stripped, NonEmpty)

\* request.query_params.getlist(name)
_param_values(req, name) ==
    LET hit(it) == it[1] = name
        m == SelectSeq(req.params, hit)
    IN [i \in 1..Len(m) |-> m[i][2]]

\* request.query_params.get(name, default): the last occurrence wins
QpGet(req, name, default) ==
    LET m == _param_values(req, name)
    IN IF m = <<>> THEN default ELSE m[Len(m)]

_param_values_with_modifier(req, base) ==
    LET hit(it) == it[1] = base \/ StartsWith(it[1], base \o <<":">>)
    IN SelectSeq(req.params, hit)

_parse_date_with_prefix(s) ==
    IF Len(s) >= 2 /\ Take(s, 2) \in {<<"g", "e">>, <<"l", "e">>,
                                      <<"g", "t">>, <<"l", "t">>}
    THEN <<Take(s, 2), Drop(s, 2)>>
    ELSE <<<<"e", "q">>, s>>

\* fhir_utils.wants_xml
wants_xml(req) ==
    \/ Contains(Lower(QpGet(req, QP.format, <<>>)), Lit.xml)
    \/ Contains(req.accept, FHIR_XML)
    \/ Contains(req.accept, Lit.app_xml)

\* one underscore may stand between two digits of an int() literal
IsDigitSep(s, i) ==
    /\ s[i] = "_"
    /\ 1 < i /\ i < Len(s)
    /\ IsDigit(s[i - 1]) /\ IsDigit(s[i + 1])

WithoutDigitSeps(s) ==
    Flatten([i \in 1..Len(s) |-> IF IsDigitSep(s, i) THEN <<>> ELSE <<s[i]>>])

\* int(s): value of an optionally signed run of digits, else ValueError
PyInt(s) ==
    LET t == Strip(s)
        signed == t # <<>> /\ t[1] \in {"-", "+"}
        digits == WithoutDigitSeps(IF signed THEN Tail(t) ELSE t)
    IN IF digits # <<>> /\ AllDigits(digits)
       THEN [ok |-> TRUE,
             n |-> IF signed /\ t[1] = "-" THEN 0 - IntOf(digits) ELSE IntOf(digits)]
       ELSE [ok |-> FALSE, n |-> 0]

\* the paging bounds with _count taken as it was parsed
EffCountUnclamped(req) ==
    LET r == PyInt(QpGet(req, QP.count, Lit.d20)) IN
    IF ~r.ok THEN 20 ELSE r.n

\* the paging bounds of patient_search
EffCount(req) ==
    LET r == PyInt(QpGet(req, QP.count, Lit.d20)) IN
    IF ~r.ok THEN 20 ELSE IF r.n < 1 THEN 1 ELSE IF r.n > 100 THEN 100 ELSE r.n

EffPage(req) ==
    LET r == PyInt(QpGet(req, QP.page, Lit.d1)) IN
    IF ~r.ok THEN 1 ELSE IF r.n < 1 THEN 1 ELSE r.n


(***************************************************************************)
(* LDAP/main.py: _escape_ldap_filter and _make_filter                      *)
(***************************************************************************)
\* the literal pieces of the filters of _make_filter
LF ==
    [ person_all |-> <<"(", "&", "(", "o", "b", "j", "e", "c", "t", "C", "l", "a", "s", "s", "=", "i", "n", "e", "t", "O", "r", "g", "P", "e", "r", "s", "o", "n", ")", ")">>,
      org_all |-> <<"(", "o", "b", "j", "e", "c", "t", "C", "l", "a", "s", "s", "=", "*", ")">>,
      person_head |-> <<"(", "&", "(", "o", "b", "j", "e", "c", "t", "C", "l", "a", "s", "s", "=", "i", "n", "e", "t", "O", "r", "g", "P", "e", "r", "s", "o", "n", ")", "(", "|">>,
      org_head |-> <<"(", "&", "(", "o", "b", "j", "e", "c", "t", "C", "l", "a", "s", "s", "=", "*", ")", "(", "|">>,
      person_attrs |-> <<<<"c", "n">>, <<"s", "n">>, <<"g", "i", "v", "e", "n", "N", "a", "m", "e">>, <<"m", "a", "i", "l">>>>,
      org_attrs |-> <<<<"o">>, <<"o", "u">>, <<"c", "n">>, <<"m", "a", "i", "l">>>> ]

\* _escape_ldap_filter with the backslash replaced last
EscapeBackslashLast(value) ==
    Replace(Replace(Replace(Replace(Replace(value,
        <<"*">>, <<"\\", "2", "a">>),
        <<"(">>, <<"\\", "2", "8">>),
        <<")">>, <<"\\", "2", "9">>),
        <<"NUL">>, <<"\\", "0", "0">>),
        <<"\\">>, <<"\\", "5", "c">>)

\* "NUL" stands for the character U+0000
_escape_ldap_filter(value) ==
    Replace(Replace(Replace(Replace(Replace(value,
        <<"\\">>, <<"\\", "5", "c">>),
        <<"*">>, <<"\\", "2", "a">>),
        <<"(">>, <<"\\", "2", "8">>),
        <<")">>, <<"\\", "2", "9">>),
        <<"NUL">>, <<"\\", "0", "0">>)

\* f"(&(...)(|(a1=*{s}*)(a2=*{s}*)(a3=*{s}*)(a4=*{s}*)))"
FilterText(head, attrs, s) ==
    head \o Flatten([i \in 1..Len(attrs) |->
                        <<"(">> \o attrs[i] \o <<"=", "*">> \o s \o <<"*", ")">>])
         \o <<")", ")">>

\* _make_filter with the query embedded as it was typed
MakeFilterUnescaped(query, scope) ==
    LET s == Strip(query)
    IN IF s = <<>>
       THEN (IF scope = "person" THEN LF.person_all ELSE LF.org_all)
       ELSE IF scope = "person" THEN FilterText(LF.person_head, LF.person_attrs, s)
       ELSE FilterText(LF.org_head, LF.org_attrs, s)

_make_filter(query, scope) ==
    LET s == _escape_ldap_filter(Strip(query))
    IN IF s = <<>>
       THEN (IF scope = "person" THEN LF.person_all ELSE LF.org_all)
       ELSE IF scope = "person" THEN FilterText(LF.person_head, LF.person_attrs, s)
       ELSE FilterText(LF.org_head, LF.org_attrs, s)

(***************************************************************************)
(* PDQm/app/db.py: the seeded table, in ORDER BY id order                  *)
(***************************************************************************)
Table ==
    <<[id |-> <<"1">>,
       identifier |-> <<"4", "2", "8", "8", "8", "9", "8", "7", "6">>,
       name_family |-> <<"S", "M", "I", "T", "H">>,
       name_given_0 |-> <<"J", "O", "H", "N">>,
       address_line_0 |-> <<"M", "a", "i", "n", " ", "S", "t", "r", "e", "e", "t", " ", "1">>,
       address_city |-> <<"A", "m", "s", "t", "e", "r", "d", "a", "m">>,
       address_postalCode |-> <<"1", "0", "1", "1", " ", "A", "A">>,
       address_country |-> <<"N", "L">>,
       tel_home |-> <<"+", "3", "1", "-", "2", "0", "-", "1", "2", "3", "4", "5", "6", "7">>,
       tel_work |-> None,
       tel_mobile |-> None,
       email |-> <<"j", "o", "h", "n", ".", "s", "m", "i", "t", "h", "@", "e", "x", "a", "m", "p", "l", "e", ".", "o", "r", "g">>,
       birthdate |-> <<1980, 5, 12>>,
       gender |-> <<"m", "a", "l", "e">>],
      [id |-> <<"2">>,
       identifier |-> <<"3", "4", "7", "1", "4", "9", "3", "8", "8">>,
       name_family |-> <<"J", "a", "n", "s", "e", "n">>,
       name_given_0 |-> <<"M", "a", "r", "i", "a">>,
       address_line_0 |-> <<"K", "e", "r", "k", "s", "t", "r", "a", "a", "t", " ", "1", "0">>,
       address_city |-> <<"A", "m", "s", "t", "e", "l", "v", "e", "e", "n">>,
       address_postalCode |-> <<"1", "1", "8", "1", "A", "B">>,
       address_country |-> <<"N", "L">>,
       tel_home |-> None,
       tel_work |-> <<"+", "3", "1", "-", "2", "0", "-", "7", "6", "5", "4", "3", "2", "1">>,
       tel_mobile |-> <<"+", "3", "1", "-", "6", "-", "1", "2", "3", "4", "5", "6", "7", "8">>,
       email |-> <<"m", "a", "r", "i", "a", ".", "j", "a", "n", "s", "e", "n", "@", "e", "x", "a", "m", "p", "l", "e", ".", "o", "r", "g">>,
       birthdate |-> <<1975, 1, 1>>,
       gender |-> <<"f", "e", "m", "a", "l", "e">>],
      [id |-> <<"3">>,
       identifier |-> None,
       name_family |-> <<"S", "m", "y", "t", "h", "e">>,
       name_given_0 |-> <<"J", "o", "n">>,
       address_line_0 |-> <<"B", "a", "k", "e", "r", " ", "S", "t", "r", "e", "e", "t", " ", "2", "2", "1", " ", "B">>,
       address_city |-> <<"L", "o", "n", "d", "o", "n">>,
       address_postalCode |-> <<"N", "W", "1">>,
       address_country |-> <<"G", "B">>,
       tel_home |-> None,
       tel_work |-> None,
       tel_mobile |-> None,
       email |-> <<"j", "o", "n", ".", "s", "m", "y", "t", "h", "e", "@", "e", "x", "a", "m", "p", "l", "e", ".", "o", "r", "g">>,
       birthdate |-> <<1980, 5, 12>>,
       gender |-> <<"m", "a", "l", "e">>]>>

\* SQL NULL
IsNone(x) == Len(x) = 1 /\ x[1] = "None"

\* SQL LIKE: % is any run of characters, _ is any one character
RECURSIVE Like(_, _)
Like(str, pat) ==
    IF pat = <<>> THEN str = <<>>
    ELSE IF pat[1] = "%"
         THEN \E k \in 0..Len(str) : Like(Drop(str, k), Tail(pat))
         ELSE /\ str # <<>>
              /\ pat[1] = "_" \/ pat[1] = str[1]
              /\ Like(Tail(str), Tail(pat))

\* one comparison of the WHERE clause
Cond(col, op, val) == [col |-> col, op |-> op, val |-> val]

\* its truth for a row; a comparison with NULL is not true
Holds(c, row) ==
    LET x == row[c.col] IN
    /\ ~IsNone(x)
    /\ CASE c.op = "eq" -> x = c.val
         [] c.op = "lower_eq" -> Lower(x) = c.val
         [] c.op = "lower_like" -> Like(Lower(x), c.val)
         [] c.op = "ge" -> DateGe(x, c.val)
         [] c.op = "lt" -> DateLt(x, c.val)

\* or_(*ors)
OrHolds(ors, row) == \E i \in 1..Len(ors) : Holds(ors[i], row)

\* and_(*filters): every filter is an or-group, birthdate eq an and-pair
Filter(kind, conds) == [kind |-> kind, conds |-> conds]
FilterHolds(f, row) ==
    IF f.kind = "or" THEN OrHolds(f.conds, row)
    ELSE \A i \in 1..Len(f.conds) : Holds(f.conds[i], row)

WhereHolds(filters, row) == \A i \in 1..Len(filters) : FilterHolds(filters[i], row)

\* the ids of the rows a statement with these filters selects, in id order
RECURSIVE SelectIds(_, _)
SelectIds(filters, t) ==
    IF t = <<>> THEN <<>>
    ELSE (IF WhereHolds(filters, t[1]) THEN <<t[1].id>> ELSE <<>>)
         \o SelectIds(filters, Tail(t))

\* .offset(o).limit(n)
Window(ids, o, n) ==
    SubSeq(ids, o + 1, IF o + n < Len(ids) THEN o + n ELSE Len(ids))


(***************************************************************************)
(* PDQm/app/main.py: the filters of patient_search                         *)
(***************************************************************************)
\* the conditions one token contributes, per parameter
IdTokenConds(x) == <<Cond("id", "eq", x)>>

GenderTokenConds(x) == <<Cond("gender", "lower_eq", Lower(Strip(x)))>>

StringTokenConds(cols, exact, token) ==
    [i \in 1..Len(cols) |->
        IF exact THEN Cond(cols[i], "lower_eq", Lower(token))
        ELSE Cond(cols[i], "lower_like", Lower(token) \o <<"%">>)]

PhoneCols == <<"tel_home", "tel_work", "tel_mobile">>
AddressCols == <<"address_line_0", "address_city", "address_postalCode", "address_country">>

ContainsConds(cols, value) ==
    [i \in 1..Len(cols) |-> Cond(cols[i], "lower_like", <<"%">> \o value \o <<"%">>)]

TelecomTokenConds(token) ==
    IF \E i \in 1..Len(token) : token[i] = "|"
    THEN LET sv == SplitFirst(token, "|")
             system == Lower(Strip(sv[1]))
             value == Lower(Strip(sv[2]))
         IN IF system = Lit.phone THEN ContainsConds(PhoneCols, value)
            ELSE IF system = Lit.email THEN ContainsConds(<<"email">>, value)
            ELSE <<>>
    ELSE ContainsConds(PhoneCols \o <<"email">>, Lower(Strip(token)))

LowerAll(ss) == [i \in 1..Len(ss) |-> Lower(ss[i])]

BareValueConds(values) ==
    Flatten([i \in 1..Len(values) |->
        <<Cond("identifier", "lower_eq", values[i]),
          Cond("identifier", "lower_like", <<"%", "|">> \o values[i])>>])

\* or_group of one identifier occurrence
IdentifierOrs(v) ==
    IF \E i \in 1..Len(v) : v[i] = "|"
    THEN LET lr == SplitFirst(v, "|")
             systems == LowerAll(StripSplit(lr[1]))
             values == LowerAll(StripSplit(lr[2]))
         IN IF values # <<>>
            THEN IF systems # <<>>
                 THEN Flatten([i \in 1..Len(values) |->
                        [j \in 1..Len(systems) |->
                            Cond("identifier", "lower_eq",
                                 systems[j] \o <<"|">> \o values[i])]])
                 ELSE BareValueConds(values)
            ELSE [j \in 1..Len(systems) |->
                    Cond("identifier", "lower_like", systems[j] \o <<"|", "%">>)]
    ELSE BareValueConds(LowerAll(StripSplit(v)))

\* if ors: filters.append(or_(*ors))
OrFilters(groups) ==
    LET kept == SelectSeq(groups, NonEmpty)
    IN [i \in 1..Len(kept) |-> Filter("or", kept[i])]

\* the _id, gender and telecom loops: ors of an occurrence are the
\* conditions of its tokens, in order
IdFilters(req) ==
    LET occs == _param_values(req, QP.id)
        ors(v) == Flatten([i \in 1..Len(_split_or_list(v)) |->
                            IdTokenConds(_split_or_list(v)[i])])
    IN OrFilters([i \in 1..Len(occs) |-> ors(occs[i])])

GenderFilters(req) ==
    LET occs == _param_values(req, QP.gender)
        ors(v) == Flatten([i \in 1..Len(_split_or_list(v)) |->
                            GenderTokenConds(_split_or_list(v)[i])])
    IN OrFilters([i \in 1..Len(occs) |-> ors(occs[i])])

TelecomFilters(req) ==
    LET occs == _param_values(req, QP.telecom)
        or_group(v) == Flatten([i \in 1..Len(_split_or_list(v)) |->
                                 TelecomTokenConds(_split_or_list(v)[i])])
    IN OrFilters([i \in 1..Len(occs) |-> or_group(occs[i])])

StringOccOrs(cols, it) ==
    LET toks == _split_or_list(it[2])
    IN Flatten([i \in 1..Len(toks) |->
                  StringTokenConds(cols, EndsWith(it[1], Lit.exact), toks[i])])

StringParamFilters(req, base, cols) ==
    LET occs == _param_values_with_modifier(req, base)
    IN OrFilters([i \in 1..Len(occs) |-> StringOccOrs(cols, occs[i])])

IdentifierFilters(req) ==
    LET occs == _param_values(req, QP.identifier)
    IN OrFilters([i \in 1..Len(occs) |-> IdentifierOrs(occs[i])])

\* lines 304-451: the filters of every parameter but birthdate
StringFilters(req) ==
    IdFilters(req)
    \o GenderFilters(req)
    \o StringParamFilters(req, QP.family, <<"name_family">>)
    \o StringParamFilters(req, QP.given, <<"name_given_0">>)
    \o StringParamFilters(req, QP.address, AddressCols)
    \o StringParamFilters(req, QP.address_city, <<"address_city">>)
    \o StringParamFilters(req, QP.address_postalcode, <<"address_postalCode">>)
    \o StringParamFilters(req, QP.address_country, <<"address_country">>)
    \o TelecomFilters(req)
    \o IdentifierFilters(req)

\* the filter of one resolved birthdate occurrence
BirthdateFilter(prefix, r) ==
    CASE prefix = <<"e", "q">> ->
            Filter("and", <<Cond("birthdate", "ge", r.start), Cond("birthdate", "lt", r.end)>>)
      [] prefix = <<"g", "e">> -> Filter("or", <<Cond("birthdate", "ge", r.start)>>)
      [] prefix = <<"l", "e">> -> Filter("or", <<Cond("birthdate", "lt", r.end)>>)
      [] prefix = <<"g", "t">> -> Filter("or", <<Cond("birthdate", "ge", r.end)>>)
      [] prefix = <<"l", "t">> -> Filter("or", <<Cond("birthdate", "lt", r.start)>>)

\* the outcome of the birthdate loop: the filters, or the value that raised
BirthdateLoop(err, v, fs) == [err |-> err, v |-> v, filters |-> fs]

\* lines 453-472 with the occurrences skipped whose value does not resolve
RECURSIVE BirthdateFiltersSkipInvalid(_)
BirthdateFiltersSkipInvalid(occs) ==
    IF occs = <<>> THEN BirthdateLoop(FALSE, <<>>, <<>>)
    ELSE LET pd == _parse_date_with_prefix(Strip(occs[1]))
             r == _parse_fhir_date_bounds(pd[2])
             rest == BirthdateFiltersSkipInvalid(Tail(occs))
         IN IF r.kind # "ok" THEN rest
            ELSE BirthdateLoop(FALSE, <<>>, <<BirthdateFilter(pd[1], r)>> \o rest.filters)

\* lines 453-472: the birthdate loop, which returns at the first value
\* that raises
RECURSIVE BirthdateFilters(_)
BirthdateFilters(occs) ==
    IF occs = <<>> THEN BirthdateLoop(FALSE, <<>>, <<>>)
    ELSE LET pd == _parse_date_with_prefix(Strip(occs[1]))
             r == _parse_fhir_date_bounds(pd[2])
         IN IF r.kind # "ok" THEN BirthdateLoop(TRUE, occs[1], <<>>)
            ELSE LET rest == BirthdateFilters(Tail(occs))
                 IN IF rest.err THEN rest
                    ELSE BirthdateLoop(FALSE, <<>>, <<BirthdateFilter(pd[1], r)>> \o rest.filters)

\* responses
\* next: the Bundle has a next link; link: the query string of that link
NoResponse ==
    [status |-> 0, code |-> "", diag |-> <<>>, total |-> 0, entry |-> <<>>,
     next |-> FALSE, link |-> <<>>]

\* the diagnostics of the two OperationOutcome answers
Diag ==
    [ xml |-> <<"X", "M", "L", " ", "n", "o", "t", " ", "y", "e", "t", " ", "s", "u", "p", "p", "o", "r", "t", "e", "d", ";", " ", "u", "s", "e", " ", "a", "p", "p", "l", "i", "c", "a", "t", "i", "o", "n", "/", "f", "h", "i", "r", "+", "j", "s", "o", "n", ".">>,
      birthdate |-> <<"I", "n", "v", "a", "l", "i", "d", " ", "b", "i", "r", "t", "h", "d", "a", "t", "e", ":", " ">> ]

\* JSONResponse(status_code=st, content=op_outcome("error", details, code))
op_outcome(st, details, code) ==
    [status |-> st, code |-> code, diag |-> details, total |-> 0,
     entry |-> <<>>, next |-> FALSE, link |-> <<>>]

Bundle(total, entry, next, link) ==
    [status |-> 200, code |-> "", diag |-> <<>>, total |-> total,
     entry |-> entry, next |-> next, link |-> IF next THEN link ELSE <<>>]

\* the two statements patient_search executes
SelectStmt(filters, offset, limit) ==
    [stmt |-> "select", where |-> filters, offset |-> offset, limit |-> limit,
     matched |-> SelectIds(filters, Table),
     rows |-> Window(SelectIds(filters, Table), offset, limit)]

CountStmt(filters) ==
    [stmt |-> "count", where |-> filters, offset |-> 0, limit |-> 0,
     matched |-> SelectIds(filters, Table),
     rows |-> <<>>]


(***************************************************************************)
(* PDQm/app/pdqm_where.py: PDQmWhereBuilder                                *)
(***************************************************************************)
family_col == <<"p", ".", "F", "a", "m", "i", "l", "y", "N", "a", "m", "e">>
gender_col == <<"p", ".", "G", "e", "n", "d", "e", "r", "C", "o", "d", "e">>
birthdate_col == <<"p", ".", "B", "i", "r", "t", "h", "D", "a", "t", "e">>
\* the fixed pieces of the SQL text
SQL ==
    [ ci_like |-> <<" ", "C", "O", "L", "L", "A", "T", "E", " ", "L", "a", "t", "i", "n", "1", "_", "G", "e", "n", "e", "r", "a", "l", "_", "C", "I", "_", "A", "I", " ", "L", "I", "K", "E", " ">>,
      ci_eq |-> <<" ", "C", "O", "L", "L", "A", "T", "E", " ", "L", "a", "t", "i", "n", "1", "_", "G", "e", "n", "e", "r", "a", "l", "_", "C", "I", "_", "A", "I", " ", "=", " ">>,
      ge |-> <<" ", ">", "=", " ">>,
      lt |-> <<" ", "<", " ">>,
      and |-> <<" ", "A", "N", "D", " ">>,
      or |-> <<" ", "O", "R", " ">>,
      where |-> <<"W", "H", "E", "R", "E", " ">> ]

DigitChars == <<"0", "1", "2", "3", "4", "5", "6", "7", "8", "9">>

\* str(n) for n >= 0
RECURSIVE Decimal(_)
Decimal(n) ==
    IF n < 10 THEN <<DigitChars[n + 1]>>
    ELSE Decimal(n \div 10) \o <<DigitChars[(n % 10) + 1]>>

\* sep.join(parts)
RECURSIVE Join(_, _)
Join(parts, sep) ==
    IF parts = <<>> THEN <<>>
    ELSE IF Len(parts) = 1 THEN parts[1]
    ELSE parts[1] \o sep \o Join(Tail(parts), sep)

Paren(sql) == <<"(">> \o sql \o <<")">>

\* values of query_params: absent (None), one str, or a list of str
Absent == [kind |-> "none", items |-> <<>>]
Str(x) == [kind |-> "str", items |-> <<x>>]
List(xs) == [kind |-> "list", items |-> xs]

_flatten_values(v) ==
    IF v.kind = "none" THEN <<>>
    ELSE Flatten([i \in 1..Len(v.items) |-> StripSplit(v.items[i])])

\* _add_param: the name f"@p{len(params)}" and the list after the append
ParamName(params) == <<"@", "p">> \o Decimal(Len(params))
_add_param(params, value) == Append(params, <<ParamName(params), value>>)

\* a condition: its text, the list after its binds, whether it raised
Part(sql, params) == [sql |-> sql, params |-> params, exc |-> "none"]
Raised(exc, params) == [sql |-> <<>>, params |-> params, exc |-> exc]

_sql_like_prefix(column, value, params) ==
    Part(column \o SQL.ci_like \o ParamName(params),
         _add_param(params, value \o <<"%">>))

_sql_like_contains(column, value, params) ==
    Part(column \o SQL.ci_like \o ParamName(params),
         _add_param(params, <<"%">> \o value \o <<"%">>))

\* _sql_equals_ci with the value written into the text
SqlEqualsInterpolated(column, value, params) ==
    Part(column \o SQL.ci_eq \o <<"'">> \o value \o <<"'">>, params)

_sql_equals_ci(column, value, params) ==
    Part(column \o SQL.ci_eq \o ParamName(params), _add_param(params, value))

_parse_prefix_and_value(raw) ==
    IF Take(raw, 2) \in {<<"l", "t">>, <<"l", "e">>, <<"g", "t">>,
                         <<"g", "e">>, <<"n", "e">>}
    THEN <<Take(raw, 2), Drop(raw, 2)>>
    ELSE IF Take(raw, 2) = <<"e", "q">> THEN <<<<"e", "q">>, Drop(raw, 2)>>
    ELSE <<<<"e", "q">>, raw>>

\* the text of the condition and the two binds, for a resolved range r
BirthdateBind(column, prefix, r, params) ==
    LET p_start == ParamName(params)
        p_end == ParamName(_add_param(params, r.start))
    IN IF r.kind # "ok" THEN Raised(r.kind, params)
       ELSE Part(
         CASE prefix = <<"e", "q">> ->
                Paren(column \o SQL.ge \o p_start \o SQL.and \o column \o SQL.lt \o p_end)
           [] prefix = <<"n", "e">> ->
                Paren(column \o SQL.lt \o p_start \o SQL.or \o column \o SQL.ge \o p_end)
           [] prefix = <<"l", "t">> -> column \o SQL.lt \o p_start
           [] prefix = <<"l", "e">> -> column \o SQL.lt \o p_end
           [] prefix = <<"g", "t">> -> column \o SQL.ge \o p_end
           [] prefix = <<"g", "e">> -> column \o SQL.ge \o p_start,
         _add_param(_add_param(params, r.start), r.end))

_birthdate_condition(column, raw_value, params) ==
    LET pv == _parse_prefix_and_value(Strip(raw_value))
    IN BirthdateBind(column, pv[1], _parse_fhir_date_bounds(pv[2]), params)

\* the condition of one value: family by its mode, gender, birthdate
CondOf(mode, v, params) ==
    CASE mode = "prefix" -> _sql_like_prefix(family_col, v, params)
      [] mode = "contains" -> _sql_like_contains(family_col, v, params)
      [] mode = "exact" -> _sql_equals_ci(family_col, v, params)
      [] mode = "gender" -> _sql_equals_ci(gender_col, Lower(v), params)
      [] mode = "birthdate" -> _birthdate_condition(birthdate_col, v, params)

\* one loop "for v in values: or_parts.append(<condition of v>)", then
\* "(" + " OR ".join(or_parts) + ")"
RECURSIVE OrGroup(_, _, _, _)
OrGroup(mode, values, or_parts, params) ==
    IF values = <<>> THEN Part(Paren(Join(or_parts, SQL.or)), params)
    ELSE LET c == CondOf(mode, values[1], params)
         IN IF c.exc # "none" THEN c
            ELSE OrGroup(mode, Tail(values), Append(or_parts, c.sql), c.params)

(***************************************************************************)
(* State                                                                   *)
(***************************************************************************)
VARIABLES
    \* LDAP/main.py
    settings,          \* the Settings object (fixed after start-up)
    _DISCOVERED_BASE,  \* the module global caching the discovered base DN
    workers,           \* request threads of the server's thread pool
    pc,                \* per thread: where it is in hpd_search / _connect
    loc,               \* per thread: its local variables
    outcome,           \* per thread: HTTP status of its last finished request
    calls,             \* requests started so far
    lookups,           \* history: RootDSE searches issued so far
    hits,              \* history: RootDSE searches that found a base DN
    sets,              \* history: assignments of a base DN to the cache
    lastFound,         \* history: result of the latest _discover_base_dn
    cachedOut,         \* result of the latest direct _resolve_base_root_cached()
    \* PDQm/app/pdqm_where.py
    dateIn,            \* argument of _parse_fhir_date_bounds
    dateOut,           \* its result, or "pending"
    bq,                \* the query_params dicts handed to PDQmWhereBuilder.build
    built,             \* the results of the build calls made so far
    \* PDQm/app/main.py
    request,           \* the GET /fhir/Patient request: query items and Accept
    response,          \* the handler's response, NoResponse before it ran
    dbQueries,         \* history: the statements executed on the session
    \* LDAP/main.py: the filter of a SearchRequest
    hpdReq,            \* the SearchRequest: q and scope
    escaped,           \* _escape_ldap_filter(req.q), NotCalled before the call
    ldap_filter,       \* _make_filter(req.q, req.scope), NotCalled before the call
    \* LDAP/main.py: the route and a helper called on its own
    httpReq,           \* per thread: the HTTP request it was handed last
    client,            \* the LDAPClient _connect created, NoClient before
    argv,              \* the argument of a helper called on its own
    retv               \* what that call returned, NotCalled before the call

ldapVars == <<settings, _DISCOVERED_BASE, workers, pc, loc, outcome, calls,
              lookups, hits, sets, lastFound, cachedOut>>
dateVars == <<dateIn, dateOut>>
buildVars == <<bq, built>>
searchVars == <<request, response, dbQueries>>
filterVars == <<hpdReq, escaped, ldap_filter>>
helperVars == <<httpReq, client, argv, retv>>
nonLdapVars == <<dateVars, buildVars, searchVars, filterVars, helperVars>>
vars == <<ldapVars, dateVars, buildVars, searchVars, filterVars, helperVars>>

Pool == {1, 2}

NotCalled == <<"not called">>
\* HTTPException(status_code=502) as the result of a call
Http502 == <<"HTTPException 502">>

\* exc: the exception client.connect raised; ou: the answer to the existence
\* check; searched: the subtree search was issued; items: the entries of the
\* SearchResponse
LocInit == [phase |-> "none", found |-> None, base_root |-> None,
            eff_dn |-> None, anon_open |-> FALSE, conn_open |-> FALSE,
            status |-> 0, exc |-> "none", ou |-> "none", searched |-> FALSE,
            items |-> <<>>]

SettingsSet ==
    [ldap_base_dn : {DN.auto, DN.AUTO, DN.dcHPD},
     ldap_bind_dn : {None, DN.rdn, DN.tmpl, DN.fulldn}]

InitLdap(pool) ==
    /\ settings \in SettingsSet
    /\ _DISCOVERED_BASE = None
    /\ workers = pool
    /\ pc = [t \in Pool |-> "idle"]
    /\ loc = [t \in Pool |-> LocInit]
    /\ outcome = [t \in Pool |-> 0]
    /\ calls = 0
    /\ lookups = 0
    /\ hits = 0
    /\ sets = 0
    /\ lastFound = None
    /\ cachedOut = NotCalled

\* no request thread runs and nothing was discovered
IdleThreads ==
    /\ _DISCOVERED_BASE = None
    /\ workers = {}
    /\ pc = [t \in Pool |-> "idle"]
    /\ loc = [t \in Pool |-> LocInit]
    /\ outcome = [t \in Pool |-> 0]
    /\ calls = 0
    /\ lookups = 0
    /\ hits = 0
    /\ sets = 0
    /\ lastFound = None
    /\ cachedOut = NotCalled

IdleLdap ==
    /\ settings = [ldap_base_dn |-> DN.dcHPD, ldap_bind_dn |-> None]
    /\ IdleThreads

Pending == Raise("pending")

IdleDate ==
    /\ dateIn = <<>>
    /\ dateOut = Pending

IdleBuild ==
    /\ bq = <<>>
    /\ built = <<>>

IdleSearch ==
    /\ request = [params |-> <<>>, accept |-> <<>>]
    /\ response = NoResponse
    /\ dbQueries = <<>>

IdleFilter ==
    /\ hpdReq = [q |-> <<>>, scope |-> "person"]
    /\ escaped = NotCalled
    /\ ldap_filter = NotCalled

\* _create_client was not called yet
NoClient ==
    [use_ssl |-> FALSE, start_tls |-> FALSE, uri |-> NotCalled, tls |-> FALSE,
     cert_policy |-> "none", ca_cert |-> None]

\* no request was dispatched yet
NoRequest == [route |-> "none", x_api_key |-> None]

IdleHelper ==
    /\ httpReq = [t \in Pool |-> NoRequest]
    /\ client = NoClient
    /\ argv = <<>>
    /\ retv = NotCalled



(***************************************************************************)
(* _parse_fhir_date_bounds applied to the strings                          *)
(*   year  sep  month  sep  day  trailer                                   *)
(***************************************************************************)
\* year fields (year 0, leap and non-leap years, the last years of date, a
\* non-ASCII digit, malformed), separators, month fields, day fields, and
\* what follows the date
DateInputs ==
    LET InYears   == { <<"0", "0", "0", "0">>,
                     <<"0", "0", "0", "1">>,
                     <<"1", "9", "0", "0">>,
                     <<"1", "9", "8", "0">>,
                     <<"2", "0", "0", "0">>,
                     <<"9", "9", "9", "8">>,
                     <<"9", "9", "9", "9">>,
                     <<"1", "9", "8", "ar3">>,
                     <<"1", "9", "x", "0">>,
                     <<"1", "9", "8">> }
        InSeps    == { <<>>,
                     <<"-">>,
                     <<"/">> }
        InMonths  == { <<>>,
                     <<"0", "0">>,
                     <<"0", "1">>,
                     <<"0", "2">>,
                     <<"1", "2">>,
                     <<"1", "3">>,
                     <<"1">> }
        InDays    == { <<>>,
                     <<"0", "0">>,
                     <<"0", "1">>,
                     <<"2", "8">>,
                     <<"2", "9">>,
                     <<"3", "0">>,
                     <<"3", "1">>,
                     <<"3", "2">> }
        InTrailers == { <<>>,
                     <<"\n">>,
                     <<" ">> }
    IN { y \o s1 \o m \o s2 \o d \o t :
           y \in InYears, s1 \in InSeps, m \in InMonths,
           s2 \in {<<>>, <<"-">>}, d \in InDays, t \in InTrailers }

\* a call _parse_fhir_date_bounds(dateIn)
ResolveDate ==
    /\ dateOut = Pending
    /\ dateOut' = _parse_fhir_date_bounds(dateIn)
    /\ UNCHANGED <<dateIn, ldapVars, buildVars, searchVars, filterVars, helperVars>>

(***************************************************************************)
(* LDAP/main.py: hpd_search and _connect, one action per step              *)
(***************************************************************************)
ConnectErrors ==
    {"LDAPAuthenticationError", "LDAPConnectionError", "LDAPError", "OSError"}

\* the request of thread t ends with HTTP status st
Finish(t, st) ==
    /\ pc' = [pc EXCEPT ![t] = "idle"]
    /\ loc' = [loc EXCEPT ![t] = LocInit]
    /\ outcome' = [outcome EXCEPT ![t] = st]

\* an exception with HTTP status st leaves _resolve_base_root
RaiseInResolve(t, st) ==
    /\ pc' = [pc EXCEPT ![t] = IF loc[t].phase = "anon" THEN "anon_close"
                                ELSE "close"]
    /\ loc' = [loc EXCEPT ![t].status = st]
    /\ UNCHANGED outcome

\* a request enters hpd_search
StartRequest(t) ==
    /\ t \in workers
    /\ pc[t] = "idle"
    /\ calls < MaxCalls
    /\ calls' = calls + 1
    /\ pc' = [pc EXCEPT ![t] = "connect"]
    /\ outcome' = [outcome EXCEPT ![t] = 0]
    /\ UNCHANGED nonLdapVars
    /\ UNCHANGED <<settings, _DISCOVERED_BASE, workers, loc, lookups, hits,
                   sets, lastFound, cachedOut>>

\* _connect, the test that decides on the anonymous discovery connection
ConnectBegin(t) ==
    /\ pc[t] = "connect"
    /\ pc' = [pc EXCEPT ![t] =
                IF /\ NeedsDiscovery(settings)
                   /\ NeedsBaseForBind(settings)
                   /\ ~Truthy(_DISCOVERED_BASE)
                THEN "anon_connect" ELSE "bind_dn"]
    /\ UNCHANGED nonLdapVars
    /\ UNCHANGED <<settings, _DISCOVERED_BASE, workers, loc, outcome, calls,
                   lookups, hits, sets, lastFound, cachedOut>>

\* anon_conn = client.connect(...)
AnonConnect(t) ==
    /\ pc[t] = "anon_connect"
    /\ \E r \in {"ok"} \cup ConnectErrors :
         IF r = "ok"
         THEN /\ pc' = [pc EXCEPT ![t] = "resolve"]
              /\ loc' = [loc EXCEPT ![t].anon_open = TRUE, ![t].phase = "anon"]
         ELSE /\ pc' = [pc EXCEPT ![t] = "except"]
              /\ loc' = [loc EXCEPT ![t].exc = r]
    /\ UNCHANGED outcome
    /\ UNCHANGED nonLdapVars
    /\ UNCHANGED <<settings, _DISCOVERED_BASE, workers, calls, lookups, hits,
                   sets, lastFound, cachedOut>>

\* where a normal return of _resolve_base_root continues
AfterResolve(t) == IF loc[t].phase = "anon" THEN "anon_close" ELSE "ou_check"

ResolveAlways(t) ==
    /\ pc[t] = "resolve"
    /\ IF IsStaticBase(settings)
       THEN /\ pc' = [pc EXCEPT ![t] = AfterResolve(t)]
            /\ loc' = [loc EXCEPT ![t].base_root = settings.ldap_base_dn]
       ELSE /\ pc' = [pc EXCEPT ![t] = "discover"]
            /\ UNCHANGED loc
    /\ UNCHANGED nonLdapVars
    /\ UNCHANGED <<settings, _DISCOVERED_BASE, workers, outcome, calls,
                   lookups, hits, sets, lastFound, cachedOut>>

\* _resolve_base_root: the static case and the test of the cache
Resolve(t) ==
    /\ pc[t] = "resolve"
    /\ IF IsStaticBase(settings)
       THEN /\ pc' = [pc EXCEPT ![t] = AfterResolve(t)]
            /\ loc' = [loc EXCEPT ![t].base_root = settings.ldap_base_dn]
       ELSE /\ pc' = [pc EXCEPT ![t] = IF ~Truthy(_DISCOVERED_BASE)
                                       THEN "discover" ELSE "ret"]
            /\ UNCHANGED loc
    /\ UNCHANGED nonLdapVars
    /\ UNCHANGED <<settings, _DISCOVERED_BASE, workers, outcome, calls,
                   lookups, hits, sets, lastFound, cachedOut>>

\* _discover_base_dn(conn): the RootDSE search and the choice among its values
Discover(t) ==
    /\ pc[t] = "discover"
    /\ \/ \E ans \in RootDseAnswers :
            LET found == _discover_base_dn(ans) IN
            /\ loc' = [loc EXCEPT ![t].found = found]
            /\ pc' = [pc EXCEPT ![t] = "store"]
            /\ hits' = IF Truthy(found) THEN hits + 1 ELSE hits
            /\ lastFound' = found
            /\ UNCHANGED outcome
       \/ \* conn.search raises an LDAPError
          /\ RaiseInResolve(t, IF loc[t].phase = "anon"
                               THEN ConnectErrorStatus("LDAPError") ELSE 500)
          /\ UNCHANGED <<hits, lastFound>>
    /\ lookups' = lookups + 1
    /\ UNCHANGED nonLdapVars
    /\ UNCHANGED <<settings, _DISCOVERED_BASE, workers, calls, sets, cachedOut>>

StoreNegative(t) ==
    /\ pc[t] = "store"
    /\ _DISCOVERED_BASE' = IF Truthy(loc[t].found) THEN loc[t].found
                           ELSE <<"?">>
    /\ sets' = sets + 1
    /\ pc' = [pc EXCEPT ![t] = "check"]
    /\ UNCHANGED nonLdapVars
    /\ UNCHANGED <<settings, workers, loc, outcome, calls, lookups, hits,
                   lastFound, cachedOut>>

\* _DISCOVERED_BASE = <the value _discover_base_dn returned>
Store(t) ==
    /\ pc[t] = "store"
    /\ _DISCOVERED_BASE' = loc[t].found
    /\ sets' = IF Truthy(loc[t].found) THEN sets + 1 ELSE sets
    /\ pc' = [pc EXCEPT ![t] = "check"]
    /\ UNCHANGED nonLdapVars
    /\ UNCHANGED <<settings, workers, loc, outcome, calls, lookups, hits,
                   lastFound, cachedOut>>

\* if not _DISCOVERED_BASE: raise HTTPException(502)
Check(t) ==
    /\ pc[t] = "check"
    /\ IF ~Truthy(_DISCOVERED_BASE)
       THEN RaiseInResolve(t, 502)
       ELSE /\ pc' = [pc EXCEPT ![t] = "ret"]
            /\ UNCHANGED <<loc, outcome>>
    /\ UNCHANGED nonLdapVars
    /\ UNCHANGED <<settings, _DISCOVERED_BASE, workers, calls, lookups, hits,
                   sets, lastFound, cachedOut>>

\* return _DISCOVERED_BASE
Ret(t) ==
    /\ pc[t] = "ret"
    /\ pc' = [pc EXCEPT ![t] = AfterResolve(t)]
    /\ loc' = [loc EXCEPT ![t].base_root = _DISCOVERED_BASE]
    /\ UNCHANGED nonLdapVars
    /\ UNCHANGED <<settings, _DISCOVERED_BASE, workers, outcome, calls,
                   lookups, hits, sets, lastFound, cachedOut>>

\* finally: anon_conn.close(), inside the try of _connect
AnonClose(t) ==
    /\ pc[t] = "anon_close"
    /\ \E r \in {"ok", "LDAPError"} :
         IF r = "LDAPError" THEN Finish(t, ConnectErrorStatus(r))
         ELSE IF loc[t].status # 0 THEN Finish(t, loc[t].status)
         ELSE /\ pc' = [pc EXCEPT ![t] = "bind_dn"]
              /\ loc' = [loc EXCEPT ![t].anon_open = FALSE, ![t].phase = "none"]
              /\ UNCHANGED outcome
    /\ UNCHANGED nonLdapVars
    /\ UNCHANGED <<settings, _DISCOVERED_BASE, workers, calls, lookups, hits,
                   sets, lastFound, cachedOut>>

\* _resolve_base_root_cached: the base DN, or the HTTPException it raises
_resolve_base_root_cached ==
    IF IsStaticBase(settings) THEN settings.ldap_base_dn
    ELSE IF Truthy(_DISCOVERED_BASE) THEN _DISCOVERED_BASE
    ELSE Http502

\* _resolve_base_root_cached() called on its own, between requests
CallResolveCached ==
    /\ \A t \in Pool : pc[t] = "idle"
    /\ cachedOut' = _resolve_base_root_cached
    /\ cachedOut' # cachedOut
    /\ UNCHANGED nonLdapVars
    /\ UNCHANGED <<settings, _DISCOVERED_BASE, workers, pc, loc, outcome,
                   calls, lookups, hits, sets, lastFound>>

\* _connect binding with the bind DN as configured
BindDnUnresolved(t) ==
    /\ pc[t] = "bind_dn"
    /\ loc' = [loc EXCEPT ![t].eff_dn = settings.ldap_bind_dn]
    /\ pc' = [pc EXCEPT ![t] = "bind"]
    /\ UNCHANGED outcome
    /\ UNCHANGED nonLdapVars
    /\ UNCHANGED <<settings, _DISCOVERED_BASE, workers, calls, lookups, hits,
                   sets, lastFound, cachedOut>>

\* _connect: the bind DN and set_credentials
BindDn(t) ==
    /\ pc[t] = "bind_dn"
    /\ IF Truthy(settings.ldap_bind_dn) /\ NeedsBaseForBind(settings)
       THEN IF _resolve_base_root_cached = Http502
            THEN Finish(t, 502)
            ELSE /\ loc' = [loc EXCEPT ![t].eff_dn =
                      _effective_bind_dn(settings, _resolve_base_root_cached)]
                 /\ pc' = [pc EXCEPT ![t] = "bind"]
                 /\ UNCHANGED outcome
       ELSE /\ loc' = [loc EXCEPT ![t].eff_dn = settings.ldap_bind_dn]
            /\ pc' = [pc EXCEPT ![t] = "bind"]
            /\ UNCHANGED outcome
    /\ UNCHANGED nonLdapVars
    /\ UNCHANGED <<settings, _DISCOVERED_BASE, workers, calls, lookups, hits,
                   sets, lastFound, cachedOut>>

\* conn = client.connect(...)
Bind(t) ==
    /\ pc[t] = "bind"
    /\ \E r \in {"ok"} \cup ConnectErrors :
         IF r = "ok"
         THEN /\ pc' = [pc EXCEPT ![t] = "resolve"]
              /\ loc' = [loc EXCEPT ![t].conn_open = TRUE, ![t].phase = "main"]
         ELSE /\ pc' = [pc EXCEPT ![t] = "except"]
              /\ loc' = [loc EXCEPT ![t].exc = r]
    /\ UNCHANGED outcome
    /\ UNCHANGED nonLdapVars
    /\ UNCHANGED <<settings, _DISCOVERED_BASE, workers, calls, lookups, hits,
                   sets, lastFound, cachedOut>>

\* the except clauses of _connect: the HTTPException raised for a failed
\* client.connect
ConnectExcept(t) ==
    /\ pc[t] = "except"
    /\ Finish(t, ConnectErrorStatus(loc[t].exc))
    /\ UNCHANGED nonLdapVars
    /\ UNCHANGED <<settings, _DISCOVERED_BASE, workers, calls, lookups, hits,
                   sets, lastFound, cachedOut>>

\* the existence check with the subtree search issued whatever it answers
OuCheckSearchesAnyway(t) ==
    /\ pc[t] = "ou_check"
    /\ \E r \in {"found", "empty", "NoSuchObject", "LDAPError"} :
         /\ pc' = [pc EXCEPT ![t] = IF r = "LDAPError" THEN "close" ELSE "search"]
         /\ loc' = [loc EXCEPT ![t].ou = r,
                               ![t].status = IF r = "LDAPError" THEN 500 ELSE 0]
    /\ UNCHANGED nonLdapVars
    /\ UNCHANGED <<settings, _DISCOVERED_BASE, workers, outcome, calls,
                   lookups, hits, sets, lastFound, cachedOut>>

\* hpd_search: the base-scope existence check of the OU; a missing OU
\* returns SearchResponse(count=0, items=[])
OuCheck(t) ==
    /\ pc[t] = "ou_check"
    /\ \E r \in {"found", "empty", "NoSuchObject", "LDAPError"} :
         /\ pc' = [pc EXCEPT ![t] = IF r = "found" THEN "search" ELSE "close"]
         /\ loc' = [loc EXCEPT ![t].ou = r,
                               ![t].items = <<>>,
                               ![t].status =
                      CASE r = "found" -> 0
                        [] r \in {"empty", "NoSuchObject"} -> 200
                        [] r = "LDAPError" -> 500]
    /\ UNCHANGED nonLdapVars
    /\ UNCHANGED <<settings, _DISCOVERED_BASE, workers, outcome, calls,
                   lookups, hits, sets, lastFound, cachedOut>>

\* hpd_search: the subtree search, which returns no entry or some
Search(t) ==
    /\ pc[t] = "search"
    /\ \E r \in {<<"ok", <<>>>>, <<"ok", <<"entry">>>>, <<"LDAPError", <<>>>>} :
         loc' = [loc EXCEPT ![t].searched = TRUE,
                            ![t].items = r[2],
                            ![t].status = IF r[1] = "ok" THEN 200 ELSE 500]
    /\ pc' = [pc EXCEPT ![t] = "close"]
    /\ UNCHANGED nonLdapVars
    /\ UNCHANGED <<settings, _DISCOVERED_BASE, workers, outcome, calls,
                   lookups, hits, sets, lastFound, cachedOut>>

\* hpd_search: finally conn.close(), its own exception swallowed
Close(t) ==
    /\ pc[t] = "close"
    /\ Finish(t, loc[t].status)
    /\ UNCHANGED nonLdapVars
    /\ UNCHANGED <<settings, _DISCOVERED_BASE, workers, calls, lookups, hits,
                   sets, lastFound, cachedOut>>

\* the steps of a request that entered hpd_search
HandleRequest(t) ==
      \/ ConnectBegin(t)
      \/ AnonConnect(t)
      \/ Resolve(t)
      \/ Discover(t)
      \/ Store(t)
      \/ Check(t)
      \/ Ret(t)
      \/ AnonClose(t)
      \/ BindDn(t)
      \/ Bind(t)
      \/ ConnectExcept(t)
      \/ OuCheck(t)
      \/ Search(t)
      \/ Close(t)

NextLdap == \E t \in Pool : StartRequest(t) \/ HandleRequest(t)

\* calls one after the other: a single request thread
InitLdapSeq == InitLdap({1}) /\ IdleDate /\ IdleBuild /\ IdleSearch /\ IdleFilter /\ IdleHelper
NextLdapSeq == NextLdap \/ CallResolveCached
SpecLdapSeq == InitLdapSeq /\ [][NextLdapSeq]_vars

\* concurrent requests: two threads of the pool
InitLdapPool == InitLdap(Pool) /\ IdleDate /\ IdleBuild /\ IdleSearch /\ IdleFilter /\ IdleHelper
SpecLdap == InitLdapPool /\ [][NextLdap]_vars

\* the three routes of the application
Route ==
    [ post |-> "POST /hpd/search", get |-> "GET /hpd/search",
      health |-> "GET /health" ]

\* a request arrives on one of the routes, with or without an X-API-Key
\* header; the two search routes depend on verify_api_key and then run
\* hpd_search, /health answers at once
Dispatch(t) ==
    /\ t \in workers
    /\ pc[t] = "idle"
    /\ calls < MaxCalls
    /\ calls' = calls + 1
    /\ \E route \in {Route.post, Route.get, Route.health},
          key \in {None, <<>>, <<"k", "1">>, <<"K", "1">>} :
         /\ httpReq' = [httpReq EXCEPT ![t] =
                          [route |-> route, x_api_key |-> key]]
         /\ IF route = Route.health
            THEN /\ outcome' = [outcome EXCEPT ![t] = 200]
                 /\ UNCHANGED pc
            ELSE IF verify_api_key(settings, key) # 0
            THEN /\ outcome' = [outcome EXCEPT ![t] =
                                  verify_api_key(settings, key)]
                 /\ UNCHANGED pc
            ELSE /\ outcome' = [outcome EXCEPT ![t] = 0]
                 /\ pc' = [pc EXCEPT ![t] = "connect"]
    /\ UNCHANGED <<client, argv, retv, dateVars, buildVars, searchVars,
                   filterVars>>
    /\ UNCHANGED <<settings, _DISCOVERED_BASE, workers, loc, lookups, hits,
                   sets, lastFound, cachedOut>>

\* one request thread behind the routes, with and without a configured key
InitAuthSpec ==
    /\ settings \in
         [ ldap_base_dn : {DN.auto, DN.dcHPD},
           ldap_bind_dn : {None, DN.rdn},
           api_key : {None, <<>>, <<"k", "1">>} ]
    /\ _DISCOVERED_BASE = None
    /\ workers = {1}
    /\ pc = [t \in Pool |-> "idle"]
    /\ loc = [t \in Pool |-> LocInit]
    /\ outcome = [t \in Pool |-> 0]
    /\ calls = 0
    /\ lookups = 0
    /\ hits = 0
    /\ sets = 0
    /\ lastFound = None
    /\ cachedOut = NotCalled
    /\ IdleDate /\ IdleBuild /\ IdleSearch /\ IdleFilter /\ IdleHelper
NextAuth == \E t \in Pool : Dispatch(t) \/ HandleRequest(t)
SpecAuth == InitAuthSpec /\ [][NextAuth]_vars

\* one request thread, with the base DN also empty, or auto among blanks
InitBaseSpec ==
    /\ settings \in
         [ ldap_base_dn : {DN.auto, DN.AUTO, DN.dcHPD, <<>>,
                           <<" ", "a", "u", "t", "o">>},
           ldap_bind_dn : {None, DN.rdn, DN.tmpl, DN.fulldn} ]
    /\ _DISCOVERED_BASE = None
    /\ workers = {1}
    /\ pc = [t \in Pool |-> "idle"]
    /\ loc = [t \in Pool |-> LocInit]
    /\ outcome = [t \in Pool |-> 0]
    /\ calls = 0
    /\ lookups = 0
    /\ hits = 0
    /\ sets = 0
    /\ lastFound = None
    /\ cachedOut = NotCalled
    /\ IdleDate /\ IdleBuild /\ IdleSearch /\ IdleFilter /\ IdleHelper
SpecBase == InitBaseSpec /\ [][NextLdapSeq]_vars


InitDateSpec ==
    /\ dateIn \in DateInputs
    /\ dateOut = Pending
    /\ IdleLdap /\ IdleBuild /\ IdleSearch /\ IdleFilter /\ IdleHelper
NextDate == ResolveDate
SpecDate == InitDateSpec /\ [][NextDate]_vars


(***************************************************************************)
(* PDQm/app/main.py: the next link of the Bundle                           *)
(***************************************************************************)
\* urllib.parse.quote_plus: letters, digits and _ . - ~ stay, a blank
\* becomes +, and the other characters of the model their percent code
PctCode(c) ==
    CASE c = "," -> <<"%", "2", "C">>
      [] c = "|" -> <<"%", "7", "C">>
      [] c = ":" -> <<"%", "3", "A">>
      [] c = "+" -> <<"%", "2", "B">>
      [] c = "=" -> <<"%", "3", "D">>
      [] c = "&" -> <<"%", "2", "6">>
      [] c = "%" -> <<"%", "2", "5">>
      [] c = " " -> <<"+">>
      [] OTHER -> <<c>>

quote_plus(s) == Flatten([i \in 1..Len(s) |-> PctCode(s[i])])

\* urllib.parse.unquote_plus, as parse_qsl applies it
RECURSIVE unquote_plus(_)
unquote_plus(s) ==
    IF s = <<>> THEN <<>>
    ELSE IF s[1] = "+" THEN <<" ">> \o unquote_plus(Tail(s))
    ELSE IF s[1] = "%" /\ Len(s) >= 3
              /\ \E c \in {",", "|", ":", "+", "=", "&", "%"} : PctCode(c) = Take(s, 3)
         THEN <<CHOOSE c \in {",", "|", ":", "+", "=", "&", "%"} : PctCode(c) = Take(s, 3)>>
              \o unquote_plus(Drop(s, 3))
    ELSE <<s[1]>> \o unquote_plus(Tail(s))

\* urlencode(qp, doseq=True) of a dict of strings, given by its items
urlencode(items) ==
    Join([i \in 1..Len(items) |->
            quote_plus(items[i][1]) \o <<"=">> \o quote_plus(items[i][2])],
         <<"&">>)

\* the query items starlette parses from a query string (blank values kept)
parse_qsl(qs) ==
    LET pairs == SelectSeq(SplitOn(qs, "&"), NonEmpty)
    IN [i \in 1..Len(pairs) |->
          IF \E k \in 1..Len(pairs[i]) : pairs[i][k] = "="
          THEN <<unquote_plus(SplitFirst(pairs[i], "=")[1]),
                 unquote_plus(SplitFirst(pairs[i], "=")[2])>>
          ELSE <<unquote_plus(pairs[i]), <<>>>>]

\* d[k] = v on a dict given by its items in insertion order
DictSet(d, k, v) ==
    IF \E i \in 1..Len(d) : d[i][1] = k
    THEN [i \in 1..Len(d) |-> IF d[i][1] = k THEN <<k, v>> ELSE d[i]]
    ELSE Append(d, <<k, v>>)

\* dict(request.query_params.multi_items())
RECURSIVE DictOf(_)
DictOf(items) ==
    IF items = <<>> THEN <<>>
    ELSE DictSet(DictOf(SubSeq(items, 1, Len(items) - 1)),
                 items[Len(items)][1], items[Len(items)][2])

\* the query string of the next link of patient_search
NextLink(req, page, count) ==
    urlencode(DictSet(DictSet(DictOf(req.params), QP.page, Decimal(page + 1)),
                      QP.count, Decimal(count)))

(***************************************************************************)
(* PDQm/app/main.py: GET /fhir/Patient                                     *)
(***************************************************************************)
MaxItems == 2

SeqsUpTo(S, n) == UNION {[1..k -> S] : k \in 0..n}

\* query items of the birthdate searches
BirthItems ==
    { <<<<"f", "a", "m", "i", "l", "y">>, <<"S", "M", "I", "T", "H">>>>,
      <<<<"_", "f", "o", "r", "m", "a", "t">>, <<"x", "m", "l">>>>,
      <<<<"b", "i", "r", "t", "h", "d", "a", "t", "e">>, <<"1", "9", "8", "0">>>>,
      <<<<"b", "i", "r", "t", "h", "d", "a", "t", "e">>, <<"g", "e", "1", "9", "8", "0", "-", "0", "5">>>>,
      <<<<"b", "i", "r", "t", "h", "d", "a", "t", "e">>, <<"l", "e", "1", "9", "7", "5">>>>,
      <<<<"b", "i", "r", "t", "h", "d", "a", "t", "e">>, <<"g", "t", "1", "9", "7", "5", "-", "1", "2", "-", "3", "1">>>>,
      <<<<"b", "i", "r", "t", "h", "d", "a", "t", "e">>, <<"l", "t", "1", "9", "8", "0">>>>,
      <<<<"b", "i", "r", "t", "h", "d", "a", "t", "e">>, <<"e", "q", "1", "9", "8", "0">>>>,
      <<<<"b", "i", "r", "t", "h", "d", "a", "t", "e">>, <<"n", "e", "1", "9", "8", "0">>>>,
      <<<<"b", "i", "r", "t", "h", "d", "a", "t", "e">>, <<"1", "9", "8", "0", ",", "1", "9", "7", "5">>>>,
      <<<<"b", "i", "r", "t", "h", "d", "a", "t", "e">>, <<"1", "9", "8", "0", "-", "1", "3">>>>,
      <<<<"b", "i", "r", "t", "h", "d", "a", "t", "e">>, <<"b", "a", "d">>>>,
      <<<<"b", "i", "r", "t", "h", "d", "a", "t", "e">>, <<"9", "9", "9", "9", "-", "1", "2", "-", "3", "1">>>> }

\* query items of the searches on the other parameters
SearchItems ==
    { <<<<"f", "a", "m", "i", "l", "y">>, <<"S", "M", "I", "T", "H">>>>,
      <<<<"f", "a", "m", "i", "l", "y">>, <<"J", "a", "n", "s", "e", "n">>>>,
      <<<<"f", "a", "m", "i", "l", "y">>, <<"s", "m", "i", ",", "j", "a", "n">>>>,
      <<<<"f", "a", "m", "i", "l", "y", ":", "e", "x", "a", "c", "t">>, <<"s", "m", "i", "t", "h">>>>,
      <<<<"f", "a", "m", "i", "l", "y">>, <<",">>>>,
      <<<<"g", "i", "v", "e", "n">>, <<"j", "o">>>>,
      <<<<"g", "e", "n", "d", "e", "r">>, <<"m", "a", "l", "e">>>>,
      <<<<"_", "i", "d">>, <<"1", ",", "3">>>>,
      <<<<"a", "d", "d", "r", "e", "s", "s">>, <<"a", "m">>>>,
      <<<<"a", "d", "d", "r", "e", "s", "s", "-", "c", "i", "t", "y">>, <<"L", "o", "n", "d", "o", "n">>>>,
      <<<<"t", "e", "l", "e", "c", "o", "m">>, <<"p", "h", "o", "n", "e", "|", "1", "2", "3", "4">>>>,
      <<<<"t", "e", "l", "e", "c", "o", "m">>, <<"f", "a", "x", "|", "1", "2", "3", "4">>>>,
      <<<<"t", "e", "l", "e", "c", "o", "m">>, <<"e", "x", "a", "m", "p", "l", "e">>>>,
      <<<<"i", "d", "e", "n", "t", "i", "f", "i", "e", "r">>, <<"4", "2", "8", "8", "8", "9", "8", "7", "6">>>>,
      <<<<"i", "d", "e", "n", "t", "i", "f", "i", "e", "r">>, <<"|", "3", "4", "7", "1", "4", "9", "3", "8", "8">>>>,
      <<<<"_", "c", "o", "u", "n", "t">>, <<"1">>>>,
      <<<<"_", "p", "a", "g", "e">>, <<"2">>>> }

\* the handler patient_search, from the request to its response
PatientSearch ==
    /\ response = NoResponse
    /\ IF wants_xml(request)
       THEN /\ response' = op_outcome(406, Diag.xml, "not-supported")
            /\ UNCHANGED dbQueries
       ELSE LET count == EffCount(request)
                page == EffPage(request)
                bd == BirthdateFilters(_param_values(request, QP.birthdate))
            IN IF bd.err
               THEN /\ response' = op_outcome(400, Diag.birthdate \o bd.v, "invalid")
                    /\ UNCHANGED dbQueries
               ELSE LET filters == StringFilters(request) \o bd.filters
                        sel == SelectStmt(filters, (page - 1) * count, count)
                        cnt == CountStmt(filters)
                        total == Len(cnt.matched)
                    IN /\ dbQueries' = dbQueries \o <<sel, cnt>>
                       /\ response' =
                            Bundle(total, sel.rows,
                                   (page - 1) * count + Len(sel.rows) < total,
                                   NextLink(request, page, count))
    /\ UNCHANGED <<request, ldapVars, dateVars, buildVars, filterVars, helperVars>>

InitBirthSpec ==
    /\ request \in [params : SeqsUpTo(BirthItems, MaxItems),
                    accept : {FHIR_JSON, FHIR_XML}]
    /\ response = NoResponse
    /\ dbQueries = <<>>
    /\ IdleLdap /\ IdleDate /\ IdleBuild /\ IdleFilter /\ IdleHelper
NextSearch == PatientSearch
SpecBirth == InitBirthSpec /\ [][NextSearch]_vars

InitSearchSpec ==
    /\ request \in [params : SeqsUpTo(SearchItems, MaxItems),
                    accept : {FHIR_JSON}]
    /\ response = NoResponse
    /\ dbQueries = <<>>
    /\ IdleLdap /\ IdleDate /\ IdleBuild /\ IdleFilter /\ IdleHelper
SpecSearch == InitSearchSpec /\ [][NextSearch]_vars


\* query items of the searches that tell the kinds of match apart: wildcard
\* characters, modifiers, blank values, identifiers with and without systems
MatchItems ==
    {
      <<<<"f", "a", "m", "i", "l", "y">>, <<"S", "M", "I", "T", "H">>>>,
      <<<<"f", "a", "m", "i", "l", "y">>, <<"s", "_", "i">>>>,
      <<<<"f", "a", "m", "i", "l", "y", ":", "e", "x", "a", "c", "t">>, <<"s", "m", "i", "t", "h">>>>,
      <<<<"f", "a", "m", "i", "l", "y", ":", "e", "x", "a", "c", "t">>, <<"S", "M", "I">>>>,
      <<<<"f", "a", "m", "i", "l", "y">>, <<>>>>,
      <<<<"f", "a", "m", "i", "l", "y">>, <<",">>>>,
      <<<<"f", "a", "m", "i", "l", "y">>, <<" ">>>>,
      <<<<"g", "i", "v", "e", "n">>, <<"j", "o">>>>,
      <<<<"g", "i", "v", "e", "n", ":", "e", "x", "a", "c", "t">>, <<"J", "O", "H", "N">>>>,
      <<<<"a", "d", "d", "r", "e", "s", "s", "-", "c", "i", "t", "y">>, <<"a", "m", "s", "t">>>>,
      <<<<"a", "d", "d", "r", "e", "s", "s", "-", "p", "o", "s", "t", "a", "l", "c", "o", "d", "e">>, <<"%">>>>,
      <<<<"a", "d", "d", "r", "e", "s", "s", "-", "c", "o", "u", "n", "t", "r", "y", ":", "e", "x", "a", "c", "t">>, <<"n", "l">>>>,
      <<<<"a", "d", "d", "r", "e", "s", "s">>, <<"a", "m">>>>,
      <<<<"a", "d", "d", "r", "e", "s", "s">>, <<"s", "t", "r", "e", "e", "t">>>>,
      <<<<"t", "e", "l", "e", "c", "o", "m">>, <<"e", "x", "a", "m", "p", "l", "e">>>>,
      <<<<"t", "e", "l", "e", "c", "o", "m">>, <<"p", "h", "o", "n", "e", "|", "7", "6", "5">>>>,
      <<<<"t", "e", "l", "e", "c", "o", "m">>, <<"e", "m", "a", "i", "l", "|", "M", "A", "R", "I", "A">>>>,
      <<<<"t", "e", "l", "e", "c", "o", "m">>, <<" ", ",", " ">>>>,
      <<<<"g", "e", "n", "d", "e", "r">>, <<" ">>>>,
      <<<<"i", "d", "e", "n", "t", "i", "f", "i", "e", "r">>, <<"a", ",", "b", "|", "1", ",", "2">>>>,
      <<<<"i", "d", "e", "n", "t", "i", "f", "i", "e", "r">>, <<"a", "|">>>>,
      <<<<"i", "d", "e", "n", "t", "i", "f", "i", "e", "r">>, <<"A", "|", "1">>>>,
      <<<<"i", "d", "e", "n", "t", "i", "f", "i", "e", "r">>, <<"1", ",", "2">>>>,
      <<<<"i", "d", "e", "n", "t", "i", "f", "i", "e", "r">>, <<"a", "_", "|">>>>,
      <<<<"b", "i", "r", "t", "h", "d", "a", "t", "e">>, <<>>>> }

InitMatchSpec ==
    /\ request \in [params : SeqsUpTo(MatchItems, MaxItems),
                    accept : {FHIR_JSON}]
    /\ response = NoResponse
    /\ dbQueries = <<>>
    /\ IdleLdap /\ IdleDate /\ IdleBuild /\ IdleFilter /\ IdleHelper
SpecMatch == InitMatchSpec /\ [][NextSearch]_vars

\* the client requests the page the next link of the Bundle names
FollowNext ==
    /\ response.status = 200
    /\ response.next
    /\ request' = [request EXCEPT !.params = parse_qsl(response.link)]
    /\ response' = NoResponse
    /\ UNCHANGED <<dbQueries, ldapVars, dateVars, buildVars, filterVars,
                   helperVars>>

\* requests that tell the pages apart: a query, then _count, then _page;
\* the queries select no row, one row, two rows or all three, one of them
\* with a repeated parameter
InitPageSpec ==
    /\ request \in
         LET Queries ==
               { <<>>,
                 << <<QP.family, <<"x">>>> >>,
                 << <<QP.family, <<"s", "m", "i">>>> >>,
                 << <<QP.gender, <<"m", "a", "l", "e">>>> >>,
                 << <<QP.gender, <<"m", "a", "l", "e">>>>,
                    <<QP.gender, <<"m", "a", "l", "e", ",", "f", "e", "m", "a", "l", "e">>>> >>,
                 << <<QP.telecom, <<"e", "m", "a", "i", "l", "|", "e", "x", "a", "m", "p", "l", "e">>>> >>,
                 << <<QP.family, <<"s", ",", "j">>>>, <<QP.given, <<"j", "o">>>> >> }
             Counts ==
               { <<>>, <<"0">>, <<"1">>, <<"2">>, <<"3">>, <<"1", "0", "0">>,
                 <<"1", "0", "1">>, <<"2", "0", "0">>, <<"-", "1">>,
                 <<"a", "b", "c">>, <<" ", "2">>, <<"+", "2">>,
                 <<"2", ".", "5">>, <<"0", "_", "2">>, <<"_", "2">> }
             Pages ==
               { <<>>, <<"1">>, <<"2">>, <<"3">>, <<"0">>, <<"-", "1">>,
                 <<"a", "b", "c">>, <<"+", "2">>, <<"2", " ">>, <<"ar3">> }
             Opt(name, values) ==
               { <<>> } \cup { << <<name, v>> >> : v \in values }
         IN [ params : { q \o c \o pg : q \in Queries,
                           c \in Opt(QP.count, Counts),
                           pg \in Opt(QP.page, Pages) },
              accept : {FHIR_JSON} ]
    /\ response = NoResponse
    /\ dbQueries = <<>>
    /\ IdleLdap /\ IdleDate /\ IdleBuild /\ IdleFilter /\ IdleHelper
NextPage == PatientSearch \/ FollowNext
SpecPage == InitPageSpec /\ [][NextPage]_vars

Keys == {"family", "family:exact", "family:contains", "gender", "birthdate"}

\* the state of build: the clauses so far, the bind list, an exception
BuildState(clauses, params, exc) ==
    [clauses |-> clauses, params |-> params, exc |-> exc]

\* "if values:" one more or-group, its text appended to the clauses
AddGroup(mode, values, st) ==
    IF values = <<>> \/ st.exc # "none" THEN st
    ELSE LET g == OrGroup(mode, values, <<>>, st.params)
         IN BuildState(Append(st.clauses, g.sql), g.params, g.exc)

\* and_clauses.append("(" + " AND ".join(group_clauses) + ")")
FamilyClause(st) ==
    IF st.clauses = <<>> THEN st
    ELSE BuildState(<<Paren(Join(st.clauses, SQL.and))>>, st.params, st.exc)

\* where_sql and params, or the exception that escapes
WhereResult(st) ==
    IF st.exc # "none" THEN [kind |-> st.exc, sql |-> <<>>, params |-> <<>>]
    ELSE [kind |-> "ok",
          sql |-> IF st.clauses # <<>>
                  THEN SQL.where \o Join(st.clauses, SQL.and) ELSE <<>>,
          params |-> st.params]

\* PDQmWhereBuilder.build(query_params), query_params.get(key) being q[key]
build(q) ==
    WhereResult(
      AddGroup("birthdate", _flatten_values(q["birthdate"]),
        AddGroup("gender", _flatten_values(q["gender"]),
          FamilyClause(
            AddGroup("contains", _flatten_values(q["family:contains"]),
              AddGroup("exact", _flatten_values(q["family:exact"]),
                AddGroup("prefix", _flatten_values(q["family"]),
                  BuildState(<<>>, <<>>, "none"))))))))

MaxKeys == 2

\* the values query_params holds per key
ValuesOf(k) ==
    CASE k = "family" ->
            { Str(<<"S", "M", "I", "T", "H">>),
            Str(<<"J", "a", "n", "s", "e", "n">>),
            Str(<<"s", "m", "i", ",", "j", "a", "n">>),
            List(<<<<"S", "M", "I", "T", "H">>, <<"J", "a", "n", "s", "e", "n">>>>) }
      [] k = "family:exact" ->
            { Str(<<"S", "m", "i", "t", "h">>) }
      [] k = "family:contains" ->
            { Str(<<"m", "i", "t">>) }
      [] k = "gender" ->
            { Str(<<"m", "a", "l", "e">>),
            Str(<<"F">>) }
      [] k = "birthdate" ->
            { Str(<<"1", "9", "8", "0">>),
            Str(<<"g", "e", "1", "9", "7", "5">>),
            Str(<<"b", "a", "d">>),
            List(<<<<"1", "9", "8", "0">>, <<"n", "e", "1", "9", "7", "5">>, <<"l", "e", "1", "9", "9", "0">>, <<"g", "t", "1", "9", "7", "0">>, <<"l", "t", "2", "0", "0", "0">>>>) }

KeySeq == <<"family", "family:exact", "family:contains", "gender", "birthdate">>

Present(q) == {k \in Keys : q[k] # Absent}

\* the dicts with at most MaxKeys keys
QuerySet ==
    LET opt(i) == ValuesOf(KeySeq[i]) \cup {Absent}
        all == { [k \in Keys |-> c[CHOOSE i \in 1..5 : KeySeq[i] = k]] :
                    c \in opt(1) \X opt(2) \X opt(3) \X opt(4) \X opt(5) }
    IN { q \in all : Cardinality(Present(q)) <= MaxKeys }

\* the builder is run on the first input, on the second, and on the first again
Build ==
    /\ Len(built) < 3
    /\ built' = Append(built, build(bq[IF Len(built) = 1 THEN 2 ELSE 1]))
    /\ UNCHANGED <<bq, ldapVars, dateVars, searchVars, filterVars, helperVars>>

\* two dicts with the same keys
InitBuildSpec ==
    /\ bq \in { pair \in QuerySet \X QuerySet : Present(pair[1]) = Present(pair[2]) }
    /\ built = <<>>
    /\ IdleLdap /\ IdleDate /\ IdleSearch /\ IdleFilter /\ IdleHelper
NextBuild == Build
SpecBuild == InitBuildSpec /\ [][NextBuild]_vars

(***************************************************************************)
(* LDAP/main.py: _escape_ldap_filter and _make_filter on a SearchRequest   *)
(***************************************************************************)
\* longest query text
MaxQLen == 3

\* the characters of the query texts: the five escaped ones, a letter, a
\* blank, and the digits and letters the escape sequences are made of
QueryChars == {"\\", "*", "(", ")", "NUL", "a", " ", "5", "c"}

\* _escape_ldap_filter(req.q)
EscapeFilter ==
    /\ escaped = NotCalled
    /\ escaped' = _escape_ldap_filter(hpdReq.q)
    /\ UNCHANGED <<hpdReq, ldap_filter, ldapVars, dateVars, buildVars, searchVars, helperVars>>

\* ldap_filter = _make_filter(req.q, req.scope)
MakeFilter ==
    /\ ldap_filter = NotCalled
    /\ ldap_filter' = _make_filter(hpdReq.q, hpdReq.scope)
    /\ UNCHANGED <<hpdReq, escaped, ldapVars, dateVars, buildVars, searchVars, helperVars>>

InitFilterSpec ==
    /\ hpdReq \in [q : SeqsUpTo(QueryChars, MaxQLen), scope : {"person", "org"}]
    /\ escaped = NotCalled
    /\ ldap_filter = NotCalled
    /\ IdleLdap /\ IdleDate /\ IdleBuild /\ IdleSearch /\ IdleHelper
NextFilter == EscapeFilter \/ MakeFilter
SpecFilter == InitFilterSpec /\ [][NextFilter]_vars

(***************************************************************************)
(* LDAP/main.py: the TLS mode of _connect, _effective_bind_dn and          *)
(* _discover_base_dn, each called on its own                               *)
(***************************************************************************)
\* _connect up to client = _create_client(use_ssl=eff_use_ssl,
\* start_tls=eff_start_tls)
ConnectCreateClient ==
    /\ client = NoClient
    /\ client' = _create_client(settings, ConnectTlsMode(settings).use_ssl,
                                ConnectTlsMode(settings).start_tls)
    /\ UNCHANGED <<httpReq, argv, retv, ldapVars, dateVars, buildVars,
                   searchVars, filterVars>>

\* values of HPD_LDAP_URI: both schemes in several letter cases, surrounded
\* by whitespace, without a scheme, and near misses of ldaps://
InitTlsSpec ==
    /\ settings \in
         [ ldap_uri :
             { <<"l", "d", "a", "p", ":", "/", "/", "h">>,
               <<"l", "d", "a", "p", "s", ":", "/", "/", "h">>,
               <<"L", "D", "A", "P", "S", ":", "/", "/", "h">>,
               <<"L", "d", "a", "p", "S", ":", "/", "/", "h">>,
               <<" ", "l", "d", "a", "p", "s", ":", "/", "/", "h", " ">>,
               <<"\t", "L", "D", "A", "P", "S", ":", "/", "/", "h", "\n">>,
               <<" ", "L", "D", "A", "P", ":", "/", "/", "h">>,
               <<"h">>,
               <<"l", "d", "a", "p", "s", ":", "/", "h">>,
               <<"x", "l", "d", "a", "p", "s", ":", "/", "/", "h">>,
               <<"l", "d", "a", "p", ":", "/", "/", "l", "d", "a", "p", "s", ":", "/", "/", "h">>,
               <<"l", "d", "a", "p", "i", ":", "/", "/", "h">>,
               <<>> },
           ldap_use_ssl : BOOLEAN,
           ldap_start_tls : BOOLEAN,
           ldap_verify_tls : BOOLEAN,
           ldap_ca_certs_file : {None, <<"c", "a">>} ]
    /\ client = NoClient
    /\ httpReq = [t \in Pool |-> NoRequest]
    /\ argv = <<>>
    /\ retv = NotCalled
    /\ IdleThreads /\ IdleDate /\ IdleBuild /\ IdleSearch /\ IdleFilter
NextTls == ConnectCreateClient
SpecTls == InitTlsSpec /\ [][NextTls]_vars

\* a call _effective_bind_dn(argv)
EffectiveBindDn ==
    /\ retv = NotCalled
    /\ retv' = _effective_bind_dn(settings, argv)
    /\ UNCHANGED <<httpReq, client, argv, ldapVars, dateVars, buildVars,
                   searchVars, filterVars>>

\* values of HPD_LDAP_BIND_DN: unset, empty, blank, a bare RDN, a full DN,
\* and DNs with one placeholder, with several, and with near misses of it;
\* and the base DNs handed to _effective_bind_dn
InitBindDnSpec ==
    /\ settings \in
         [ ldap_bind_dn :
             { None, <<>>, <<" ">>, DN.rdn, DN.fulldn, DN.tmpl, DN.base,
               DN.base \o <<",">> \o DN.base,
               DN.base \o DN.base,
               <<"c", "n", "=">> \o DN.base \o <<",", "o", "=">> \o DN.base,
               <<"c", "n", "=", "r", ",", "{", "B", "A", "S", "E", "}">>,
               <<"{", "b", "a", "s", "e">>,
               <<"{", "{", "b", "a", "s", "e", "}", "}">>,
               <<"c", "n", "=", "r", ",">> } ]
    /\ argv \in
         { DN.dcHPD, DN.dcex, <<"d", "c", "=", "a", ",", "d", "c", "=", "b">>,
           <<>>, DN.base, <<"b", "a", "s", "e", "}">> }
    /\ retv = NotCalled
    /\ httpReq = [t \in Pool |-> NoRequest]
    /\ client = NoClient
    /\ IdleThreads /\ IdleDate /\ IdleBuild /\ IdleSearch /\ IdleFilter
NextBindDn == EffectiveBindDn
SpecBindDn == InitBindDnSpec /\ [][NextBindDn]_vars

\* most namingContexts values of one RootDSE entry
MaxContexts == 3

\* a call _discover_base_dn(conn) on a connection whose search returns argv
DiscoverBaseDn ==
    /\ retv = NotCalled
    /\ retv' = _discover_base_dn(argv)
    /\ UNCHANGED <<httpReq, client, argv, ldapVars, dateVars, buildVars,
                   searchVars, filterVars>>

\* what conn.search returns for the RootDSE: no entry, or one entry, given
\* by its namingContexts values; the values
\* a directory may list are dc=HPD in two letter cases, two other contexts,
\* and an empty value
InitDiscoverSpec ==
    /\ argv \in
         LET Contexts == {DN.dcHPD, DN.dchpd, DN.dcex, <<"d", "c", "=", "y">>, <<>>}
         IN { <<>> } \cup { <<vals>> : vals \in SeqsUpTo(Contexts, MaxContexts) }
    /\ retv = NotCalled
    /\ httpReq = [t \in Pool |-> NoRequest]
    /\ client = NoClient
    /\ IdleLdap /\ IdleDate /\ IdleBuild /\ IdleSearch /\ IdleFilter
NextDiscover == DiscoverBaseDn
SpecDiscover == InitDiscoverSpec /\ [][NextDiscover]_vars

(***************************************************************************)
(* Claims about the discovery cache                                        *)
(***************************************************************************)
IsAuto == ~IsStaticBase(settings)

\* C3: with the base DN configured as auto, in any sequence of calls the
\* cache goes from unset to set at most once, and it is the first successful
\* RootDSE lookup that sets it; once set it never changes value and no
\* RootDSE query is issued any more.
C3_CacheSetOnce ==
    [][ /\ Truthy(_DISCOVERED_BASE) =>
             /\ _DISCOVERED_BASE' = _DISCOVERED_BASE
             /\ lookups' = lookups
        /\ (~Truthy(_DISCOVERED_BASE) /\ Truthy(_DISCOVERED_BASE')) =>
             /\ IsAuto
             /\ hits = 1
             /\ sets' = 1
             /\ _DISCOVERED_BASE' = lastFound
        /\ sets' <= 1
      ]_vars

\* a later call returns the cached value: one lookup was issued in all
C3_Witness ==
    /\ IsAuto
    /\ calls >= 2
    /\ pc[1] = "ret"
    /\ lookups = 1
    /\ Truthy(_DISCOVERED_BASE)

\* C4: with concurrent first requests discovery is not duplicated: no second
\* RootDSE lookup finds a base DN and the cache is written at most once.
C4_NoDuplicateDiscovery == hits <= 1 /\ sets <= 1

\* C5: no negative caching. A _resolve_base_root call whose lookup finds no
\* naming context raises 502 and leaves the cache unset; a call that finds
\* the cache unset performs discovery; a call whose lookup succeeds caches
\* and returns the discovered value; _resolve_base_root_cached raises 502
\* exactly as long as nothing has been discovered.
C5_NoNegativeCaching ==
    [][ /\ (pc[1] = "check" /\ ~Truthy(loc[1].found)) =>
             /\ loc'[1].status = 502
             /\ pc'[1] \in {"anon_close", "close"}
             /\ ~Truthy(_DISCOVERED_BASE')
        /\ (pc[1] = "resolve" /\ IsAuto /\ ~Truthy(_DISCOVERED_BASE)) =>
             pc'[1] = "discover"
        /\ (pc[1] = "check" /\ Truthy(loc[1].found)) =>
             /\ pc'[1] = "ret"
             /\ _DISCOVERED_BASE' = loc[1].found
        /\ (pc[1] = "ret" /\ pc'[1] # "ret") =>
             loc'[1].base_root = _DISCOVERED_BASE
        /\ (cachedOut' # cachedOut /\ IsAuto) =>
             cachedOut' = IF hits = 0 THEN Http502 ELSE _DISCOVERED_BASE
      ]_vars

\* after a failed lookup was answered with 502 a later call discovered and
\* cached the base DN, and before that the cached resolver had raised
C5_Witness ==
    /\ IsAuto
    /\ lookups >= 2
    /\ hits = 1
    /\ calls >= 2
    /\ pc[1] = "ret"
    /\ Truthy(_DISCOVERED_BASE)
    /\ cachedOut = Http502



(***************************************************************************)
(* Claims about the LDAP filter                                            *)
(***************************************************************************)
\* the five escape sequences, by the character they stand for
EscapeOf(c) ==
    CASE c = "\\" -> <<"\\", "5", "c">>
      [] c = "*" -> <<"\\", "2", "a">>
      [] c = "(" -> <<"\\", "2", "8">>
      [] c = ")" -> <<"\\", "2", "9">>
      [] c = "NUL" -> <<"\\", "0", "0">>
      [] OTHER -> <<c>>

\* every character of a text escaped once, in place
EscapedOnce(t) == Flatten([i \in 1..Len(t) |-> EscapeOf(t[i])])

IsFilterSyntax(c) == c \in {"*", "(", ")"}

\* every backslash of the text starts one of the five escape sequences
BackslashesEscape(t) ==
    \A i \in 1..Len(t) :
        t[i] = "\\" =>
            /\ i + 2 <= Len(t)
            /\ <<t[i + 1], t[i + 2]>> \in
                 {<<"5", "c">>, <<"2", "a">>, <<"2", "8">>, <<"2", "9">>, <<"0", "0">>}

\* C11: _escape_ldap_filter replaces every backslash, '*', '(', ')' and NUL
\* by its escape sequence and leaves every other character unchanged, each
\* input character escaped exactly once; the output contains no '*', '(',
\* ')' or NUL, and every backslash in it starts one of the five sequences.
C11_EscapedOnce ==
    escaped # NotCalled =>
        /\ escaped = EscapedOnce(hpdReq.q)
        /\ \A i \in 1..Len(escaped) :
              ~IsFilterSyntax(escaped[i]) /\ escaped[i] # "NUL"
        /\ BackslashesEscape(escaped)

\* a text with a backslash in front of the characters of an escape sequence
\* and a text with '*' after a backslash were escaped
C11_Witness ==
    /\ escaped # NotCalled
    /\ hpdReq.q \in {<<"\\", "5", "c">>, <<"\\", "*", "(">>}
    /\ Len(escaped) \in {5, 9}

\* the templates of the two scopes, "{s}" marking the embedded query
Template(scope) ==
    IF scope = "person"
    THEN <<"(", "&", "(", "o", "b", "j", "e", "c", "t", "C", "l", "a", "s", "s", "=", "i", "n", "e", "t", "O", "r", "g", "P", "e", "r", "s", "o", "n", ")", "(", "|", "(", "c", "n", "=", "*", "{s}", "*", ")", "(", "s", "n", "=", "*", "{s}", "*", ")", "(", "g", "i", "v", "e", "n", "N", "a", "m", "e", "=", "*", "{s}", "*", ")", "(", "m", "a", "i", "l", "=", "*", "{s}", "*", ")", ")", ")">>
    ELSE <<"(", "&", "(", "o", "b", "j", "e", "c", "t", "C", "l", "a", "s", "s", "=", "*", ")", "(", "|", "(", "o", "=", "*", "{s}", "*", ")", "(", "o", "u", "=", "*", "{s}", "*", ")", "(", "c", "n", "=", "*", "{s}", "*", ")", "(", "m", "a", "i", "l", "=", "*", "{s}", "*", ")", ")", ")">>

ListAll(scope) ==
    IF scope = "person" THEN <<"(", "&", "(", "o", "b", "j", "e", "c", "t", "C", "l", "a", "s", "s", "=", "i", "n", "e", "t", "O", "r", "g", "P", "e", "r", "s", "o", "n", ")", ")">>
    ELSE <<"(", "o", "b", "j", "e", "c", "t", "C", "l", "a", "s", "s", "=", "*", ")">>

\* the characters of a text that are filter syntax, in order
SyntaxOf(t) == SelectSeq(t, IsFilterSyntax)

\* C12: for a query that is empty after trimming _make_filter returns the
\* list-all filter of the scope, and otherwise the template of the scope
\* with the escaped, trimmed query embedded as *Q* in each of its four
\* attributes; the parentheses and '*' of the result are exactly those of
\* the template, and every backslash starts an escape sequence.
C12_FilterFromTemplate ==
    ldap_filter # NotCalled =>
        LET Q == EscapedOnce(Strip(hpdReq.q)) IN
        /\ Strip(hpdReq.q) = <<>> => ldap_filter = ListAll(hpdReq.scope)
        /\ Strip(hpdReq.q) # <<>> =>
              /\ ldap_filter = Replace(Template(hpdReq.scope), <<"{s}">>, Q)
              /\ SyntaxOf(ldap_filter) = SyntaxOf(Template(hpdReq.scope))
              /\ BackslashesEscape(ldap_filter)

\* a query of filter syntax between blanks was compiled for the org scope
C12_Witness ==
    /\ ldap_filter # NotCalled
    /\ hpdReq.scope = "org"
    /\ hpdReq.q = <<" ", ")", "(">>
    /\ Contains(ldap_filter, <<"(", "o", "u", "=", "*", "\\", "2", "9", "\\", "2", "8", "*", ")">>)

(***************************************************************************)
(* Claims about _connect and hpd_search                                    *)
(***************************************************************************)
\* the status the claim gives per kind of failure
ClaimedConnectStatus(exc) ==
    CASE exc = "LDAPAuthenticationError" -> 502
      [] exc \in {"LDAPConnectionError", "OSError"} -> 503
      [] OTHER -> 502

\* C19: a failed connection attempt of _connect becomes one outward failure:
\* 502 for an authentication error, 503 for a connection error or an
\* OSError, 502 for any other LDAP error; it surfaces at once, and the call
\* makes no further connection attempt.
C19_ConnectFailureMapped ==
    [][ \A t \in Pool :
          /\ (pc[t] \in {"anon_connect", "bind"} /\ pc'[t] # pc[t]
                /\ pc'[t] # "resolve") =>
                /\ pc'[t] = "except"
                /\ loc'[t].exc \in ConnectErrors
          /\ (pc[t] = "except" /\ pc'[t] # "except") =>
                /\ pc'[t] = "idle"
                /\ outcome'[t] = ClaimedConnectStatus(loc[t].exc)
      ]_vars

\* the session connection failed with a connection error after the
\* anonymous connection had served the discovery: the call ended with 503
C19_Witness ==
    /\ pc[1] = "idle"
    /\ outcome[1] = 503
    /\ calls = 1
    /\ lookups = 1
    /\ Truthy(_DISCOVERED_BASE)

Done == response # NoResponse
Params == request.params
BirthOccs == _param_values(request, QP.birthdate)
FirstSelect == dbQueries[1]

\* the rows of the table and the ids a statement selected
Rows == {Table[i] : i \in 1..Len(Table)}
Matched == {FirstSelect.matched[i] : i \in 1..Len(FirstSelect.matched)}

\* a parameter name with or without a modifier
BaseIs(name, base) == name = base \/ StartsWith(name, base \o <<":">>)

IsStringSearchParam(name) ==
    \/ name \in {QP.id, QP.gender, QP.telecom, QP.identifier}
    \/ \E b \in {QP.family, QP.given, QP.address, QP.address_city,
                 QP.address_postalcode, QP.address_country} : BaseIs(name, b)

\* how one token of an occurrence is matched against a row
ClaimTokenConds(name, token) ==
    CASE name = QP.id -> IdTokenConds(token)
      [] name = QP.gender -> GenderTokenConds(token)
      [] name = QP.telecom -> TelecomTokenConds(token)
      [] BaseIs(name, QP.family) ->
            StringTokenConds(<<"name_family">>, EndsWith(name, Lit.exact), token)
      [] BaseIs(name, QP.given) ->
            StringTokenConds(<<"name_given_0">>, EndsWith(name, Lit.exact), token)
      [] BaseIs(name, QP.address) ->
            StringTokenConds(AddressCols, EndsWith(name, Lit.exact), token)
      [] BaseIs(name, QP.address_city) ->
            StringTokenConds(<<"address_city">>, EndsWith(name, Lit.exact), token)
      [] BaseIs(name, QP.address_postalcode) ->
            StringTokenConds(<<"address_postalCode">>, EndsWith(name, Lit.exact), token)
      [] BaseIs(name, QP.address_country) ->
            StringTokenConds(<<"address_country">>, EndsWith(name, Lit.exact), token)

\* an occurrence restricts the result when it has a surviving token, and
\* then a row needs one of its tokens to match; an identifier occurrence is
\* taken as a whole
OccHasToken(it) ==
    IF it[1] = QP.identifier THEN IdentifierOrs(it[2]) # <<>>
    ELSE _split_or_list(it[2]) # <<>>

OccMatches(it, row) ==
    IF it[1] = QP.identifier THEN OrHolds(IdentifierOrs(it[2]), row)
    ELSE \E k \in 1..Len(_split_or_list(it[2])) :
            OrHolds(ClaimTokenConds(it[1], _split_or_list(it[2])[k]), row)

ClaimRowSelected(row) ==
    \A i \in 1..Len(Params) :
        (IsStringSearchParam(Params[i][1]) /\ OccHasToken(Params[i]))
            => OccMatches(Params[i], row)

\* C1: for _id, gender, family, given, address, address-*, telecom and
\* identifier a row is selected iff every occurrence that has a surviving
\* token has a token matching the row; with no surviving token at all every
\* row is selected.
C1_AndOrSelection ==
    Done =>
      /\ response.status = 200
      /\ Matched = {row.id : row \in {r \in Rows : ClaimRowSelected(r)}}
      /\ response.total = Cardinality({r \in Rows : ClaimRowSelected(r)})

\* a telecom token whose system is neither phone nor email
UnknownSystemToken ==
    \E i \in 1..Len(Params) :
        /\ Params[i][1] = QP.telecom
        /\ \E k \in 1..Len(_split_or_list(Params[i][2])) :
              TelecomTokenConds(_split_or_list(Params[i][2])[k]) = <<>>

\* the same statement for the requests without such a token
C1_HoldsForKnownSystems == UnknownSystemToken \/ C1_AndOrSelection

(***************************************************************************)
(* Claims about the partial-date resolver                                  *)
(***************************************************************************)
\* the three forms of the claims; a digit is what \d matches, and one
\* trailing line feed is not counted as part of the string
Chomp(s) == IF s # <<>> /\ s[Len(s)] = "\n" THEN SubSeq(s, 1, Len(s) - 1) ELSE s
IsYear(s) == Len(s) = 4 /\ \A i \in 1..4 : IsDigit(s[i])
IsYearMonth(s) ==
    /\ Len(s) = 7 /\ IsYear(SubSeq(s, 1, 4)) /\ s[5] = "-"
    /\ \A i \in 6..7 : IsDigit(s[i])
IsFullDate(s) ==
    /\ Len(s) = 10 /\ IsYearMonth(SubSeq(s, 1, 7)) /\ s[8] = "-"
    /\ \A i \in 9..10 : IsDigit(s[i])
YearOf(s)  == IntOf(SubSeq(s, 1, 4))
MonthOf(s) == IntOf(SubSeq(s, 6, 7))
DayOf(s)   == IntOf(SubSeq(s, 9, 10))
\* a month of the calendar, a day of that month, a year from 1 on
RealMonth(s) == YearOf(s) >= 1 /\ MonthOf(s) \in 1..12
RealDay(s) == RealMonth(s) /\ DayOf(s) \in 1..DaysInMonth(YearOf(s), MonthOf(s))

\* the range the claims give for a well-formed string
ClaimedRange(s) ==
    IF Len(s) = 4
    THEN Range(<<YearOf(s), 1, 1>>, <<YearOf(s) + 1, 1, 1>>)
    ELSE IF Len(s) = 7
    THEN Range(<<YearOf(s), MonthOf(s), 1>>,
               IF MonthOf(s) = 12 THEN <<YearOf(s) + 1, 1, 1>>
               ELSE <<YearOf(s), MonthOf(s) + 1, 1>>)
    ELSE Range(<<YearOf(s), MonthOf(s), DayOf(s)>>,
               NextDay(<<YearOf(s), MonthOf(s), DayOf(s)>>))

\* the inputs the claims say are resolved
WellFormedDate(s) ==
    \/ IsYear(s) /\ YearOf(s) >= 1
    \/ IsYearMonth(s) /\ RealMonth(s)
    \/ IsFullDate(s) /\ RealDay(s)

\* C6: a year gives [Jan 1 Y, Jan 1 Y+1), a valid year-month gives [1st of
\* the month, 1st of the next month) with December rolling over to Y+1, a
\* valid full date gives [date, date + 1 day).
C6_PartialDateRange ==
    (dateOut # Pending /\ WellFormedDate(Chomp(dateIn))) =>
        dateOut = ClaimedRange(Chomp(dateIn))

\* C7: the result is a range with start < end or the ValueError, nothing
\* else, and it is the ValueError exactly when the string is not of the form
\* YYYY[-MM[-DD]] or names no real month or day.
C7_RangeOrValueError ==
    dateOut # Pending =>
      /\ dateOut.kind \in {"ok", "ValueError"}
      /\ dateOut.kind = "ok" => DateLt(dateOut.start, dateOut.end)
      /\ dateOut.kind = "ValueError" <=> ~WellFormedDate(Chomp(dateIn))

\* the same two statements for the years whose range end date can hold
C67_HoldBelow9999 ==
    (dateOut # Pending /\ ~StartsWith(dateIn, <<"9", "9", "9", "9">>)) =>
        /\ C6_PartialDateRange
        /\ C7_RangeOrValueError


(***************************************************************************)
(* Claims about the birthdate search of the endpoint                       *)
(***************************************************************************)
Eq == <<"e", "q">>
SixPrefixes ==
    {Eq, <<"n", "e">>, <<"l", "t">>, <<"l", "e">>, <<"g", "t">>, <<"g", "e">>}

\* prefix and date of one birthdate value as the claims read it
HasPrefix(v) == Len(Strip(v)) >= 2 /\ Take(Strip(v), 2) \in SixPrefixes
ClaimPrefix(v) == IF HasPrefix(v) THEN Take(Strip(v), 2) ELSE Eq
ClaimDate(v) == IF HasPrefix(v) THEN Drop(Strip(v), 2) ELSE Strip(v)

\* the condition each prefix applies for the range r on a birthdate b
ClaimCond(prefix, r, b) ==
    CASE prefix = Eq -> DateGe(b, r.start) /\ DateLt(b, r.end)
      [] prefix = <<"n", "e">> -> DateLt(b, r.start) \/ DateGe(b, r.end)
      [] prefix = <<"l", "t">> -> DateLt(b, r.start)
      [] prefix = <<"l", "e">> -> DateLt(b, r.end)
      [] prefix = <<"g", "t">> -> DateGe(b, r.end)
      [] prefix = <<"g", "e">> -> DateGe(b, r.start)

ValueHolds(v, row) ==
    ClaimCond(ClaimPrefix(v), ClaimedRange(ClaimDate(v)), row.birthdate)

\* comma-separated values of an occurrence
ClaimValues(occ) == _split_or_list(occ)

Unparsable(v) == ~WellFormedDate(ClaimDate(v))
\* a value whose range the date type can hold
Resolvable(v) ==
    WellFormedDate(ClaimDate(v)) /\ YearOf(ClaimDate(v)) < 9999

OccUnparsable(occ) ==
    \E j \in 1..Len(ClaimValues(occ)) : Unparsable(ClaimValues(occ)[j])

HasUnparsable == \E i \in 1..Len(BirthOccs) : OccUnparsable(BirthOccs[i])

OnlyBirthdate ==
    /\ Params # <<>>
    /\ \A i \in 1..Len(Params) : Params[i][1] = QP.birthdate
AsksJson == ~wants_xml(request)

\* C8: the endpoint accepts eq, ne, lt, le, gt, ge (eq when no prefix is
\* present) and applies to the resolved range [start, end): eq: C >= start
\* AND C < end; ne: C < start OR C >= end; lt: C < start; le: C < end;
\* gt: C >= end; ge: C >= start.
C8_SixPrefixes ==
    (/\ Done /\ AsksJson /\ OnlyBirthdate /\ Len(Params) = 1
     /\ Len(ClaimValues(BirthOccs[1])) = 1
     /\ Resolvable(BirthOccs[1])) =>
        /\ response.status = 200
        /\ Matched = {row.id : row \in {r \in Rows : ValueHolds(BirthOccs[1], r)}}

\* an explicit eq or ne prefix
ExplicitEqNe(v) == HasPrefix(v) /\ ClaimPrefix(v) \in {Eq, <<"n", "e">>}

\* the same statement for the values without an explicit eq or ne
C8_HoldsForFourPrefixes ==
    (OnlyBirthdate /\ ExplicitEqNe(BirthOccs[1])) \/ C8_SixPrefixes

OccHolds(occ, row) ==
    \E j \in 1..Len(ClaimValues(occ)) : ValueHolds(ClaimValues(occ)[j], row)

\* every value of every occurrence resolves and has a prefix the endpoint knows
AllPlain ==
    \A i \in 1..Len(BirthOccs) :
        \A j \in 1..Len(ClaimValues(BirthOccs[i])) :
            /\ Resolvable(ClaimValues(BirthOccs[i])[j])
            /\ ~ExplicitEqNe(ClaimValues(BirthOccs[i])[j])

\* C9: a row is selected iff, for every birthdate occurrence, the condition
\* of at least one of its comma-separated values holds for the row.
C9_BirthdateAndOr ==
    (Done /\ AsksJson /\ OnlyBirthdate /\ AllPlain) =>
        /\ response.status = 200
        /\ Matched = {row.id : row \in {r \in Rows :
                        \A i \in 1..Len(BirthOccs) : OccHolds(BirthOccs[i], r)}}

CommaList == \E i \in 1..Len(BirthOccs) : Len(ClaimValues(BirthOccs[i])) > 1

\* the same statement for the requests without a comma list
C9_HoldsWithoutCommas == CommaList \/ C9_BirthdateAndOr

NoPartialResult ==
    dbQueries = <<>> /\ response.entry = <<>> /\ response.total = 0

OccPlain(occ) ==
    /\ Len(ClaimValues(occ)) = 1
    /\ Resolvable(occ)
    /\ ~ExplicitEqNe(occ)

FirstUnparsable ==
    CHOOSE i \in 1..Len(BirthOccs) :
        OccUnparsable(BirthOccs[i]) /\ \A j \in 1..(i - 1) : ~OccUnparsable(BirthOccs[j])

AllNamed(names) ==
    Params # <<>> /\ \A i \in 1..Len(Params) : Params[i][1] \in names

WithExact(bases) == bases \cup {b \o Lit.exact : b \in bases}

HasWildcard(t) == \E i \in 1..Len(t) : t[i] \in {"%", "_"}
NoWildcards == \A i \in 1..Len(Params) : ~HasWildcard(Params[i][2])

\* the column a string parameter is matched against
ColumnOf(name) ==
    CASE BaseIs(name, QP.family) -> "name_family"
      [] BaseIs(name, QP.given) -> "name_given_0"
      [] BaseIs(name, QP.address_city) -> "address_city"
      [] BaseIs(name, QP.address_postalcode) -> "address_postalCode"
      [] BaseIs(name, QP.address_country) -> "address_country"

\* equality with :exact, starts-with without, both ignoring letter case
StringTokenMatches(name, token, row) ==
    LET x == row[ColumnOf(name)] IN
    /\ ~IsNone(x)
    /\ IF EndsWith(name, Lit.exact) THEN Lower(x) = Lower(token)
       ELSE StartsWith(Lower(x), Lower(token))

C13RowSelected(row) ==
    \A i \in 1..Len(Params) :
        ClaimValues(Params[i][2]) # <<>> =>
            \E k \in 1..Len(ClaimValues(Params[i][2])) :
                StringTokenMatches(Params[i][1], ClaimValues(Params[i][2])[k], row)

\* C13: for family, given, address-city, address-postalcode and
\* address-country a token matches a row iff, with :exact, the column equals
\* the token and, without a modifier, the column starts with the token, both
\* ignoring letter case and with the token taken literally, '%' and '_'
\* included.
C13_ExactAndPrefixLiteral ==
    (Done /\ AllNamed(WithExact({QP.family, QP.given, QP.address_city,
                                 QP.address_postalcode, QP.address_country}))) =>
        /\ response.status = 200
        /\ Matched = {row.id : row \in {r \in Rows : C13RowSelected(r)}}

\* the same statement for the tokens without '%' and '_'
C13_HoldsWithoutWildcards == ~NoWildcards \/ C13_ExactAndPrefixLiteral

\* the columns and the value of a telecom token
HasBar(t) == \E i \in 1..Len(t) : t[i] = "|"
TelecomCols(token) ==
    IF HasBar(token)
    THEN LET system == Lower(Strip(SplitFirst(token, "|")[1]))
         IN IF system = Lit.phone THEN PhoneCols
            ELSE IF system = Lit.email THEN <<"email">>
            ELSE <<>>
    ELSE PhoneCols \o <<"email">>
TelecomValue(token) ==
    Lower(Strip(IF HasBar(token) THEN SplitFirst(token, "|")[2] ELSE token))

\* one of the columns contains the value
ContainsIn(cols, value, row) ==
    \E i \in 1..Len(cols) :
        ~IsNone(row[cols[i]]) /\ Contains(Lower(row[cols[i]]), value)

ContainsTokenMatches(name, token, row) ==
    IF name = QP.telecom
    THEN ContainsIn(TelecomCols(token), TelecomValue(token), row)
    ELSE ContainsIn(AddressCols, Lower(token), row)

C14RowSelected(row) ==
    \A i \in 1..Len(Params) :
        ClaimValues(Params[i][2]) # <<>> =>
            \E k \in 1..Len(ClaimValues(Params[i][2])) :
                ContainsTokenMatches(Params[i][1], ClaimValues(Params[i][2])[k], row)

\* a telecom token that is blank after trimming
BlankTelecom ==
    \E i \in 1..Len(Params) :
        /\ Params[i][1] = QP.telecom
        /\ \E k \in 1..Len(ClaimValues(Params[i][2])) :
              Strip(ClaimValues(Params[i][2])[k]) = <<>>

\* C14: without :exact a telecom token matches iff one of its bound columns
\* (the three phone columns and/or email) contains the value, and a token of
\* the broad address parameter matches iff one of line, city, postal code or
\* country contains it.
C14_ContainsMatch ==
    (Done /\ AllNamed({QP.telecom, QP.address}) /\ ~BlankTelecom) =>
        /\ response.status = 200
        /\ Matched = {row.id : row \in {r \in Rows : C14RowSelected(r)}}

\* the same statement for telecom alone
C14_HoldsForTelecom ==
    (\E i \in 1..Len(Params) : Params[i][1] = QP.address) \/ C14_ContainsMatch

\* the systems and the values of an identifier occurrence
IdentSystems(v) ==
    IF HasBar(v) THEN LowerAll(StripSplit(SplitFirst(v, "|")[1])) ELSE <<>>
IdentValues(v) ==
    LowerAll(StripSplit(IF HasBar(v) THEN SplitFirst(v, "|")[2] ELSE v))

\* the three cases of an identifier occurrence, for a stored identifier x
IdentOccMatches(v, x) ==
    IF HasBar(v)
    THEN IF IdentValues(v) # <<>>
         THEN \E i \in 1..Len(IdentSystems(v)) : \E j \in 1..Len(IdentValues(v)) :
                 Lower(x) = IdentSystems(v)[i] \o <<"|">> \o IdentValues(v)[j]
         ELSE \E i \in 1..Len(IdentSystems(v)) :
                 StartsWith(Lower(x), IdentSystems(v)[i] \o <<"|">>)
    ELSE \E j \in 1..Len(IdentValues(v)) :
            \/ Lower(x) = IdentValues(v)[j]
            \/ EndsWith(Lower(x), <<"|">> \o IdentValues(v)[j])

\* the occurrences the three cases describe
IdentCovered(v) ==
    IF HasBar(v) THEN IdentSystems(v) # <<>> ELSE IdentValues(v) # <<>>

\* identifiers a row may store, and a row that stores one of them
ProbeIdentifiers ==
    { <<"a", "|", "1">>,
      <<"A", "|", "1">>,
      <<"b", "|", "2">>,
      <<"a", "|", "2">>,
      <<"a", "b", "|", "1">>,
      <<"a", "|", "1", "2">>,
      <<"1">>,
      <<"1", "2">>,
      <<"x", "|", "1">>,
      <<"c", "|", "3">>,
      <<"a", "|">> }
ProbeRow(x) == [Table[1] EXCEPT !.identifier = x]

\* C15: an identifier occurrence with '|' is a list of systems and a list of
\* values: with both non-empty it selects the identifiers equal, ignoring
\* case, to one 'system|value' of the cross product, with no value those
\* that start with one 'system|', and an occurrence without '|' those equal
\* to a value or ending with '|value'.
C15_IdentifierCases ==
    (/\ Done /\ AllNamed({QP.identifier})
     /\ \A i \in 1..Len(Params) : IdentCovered(Params[i][2])) =>
        /\ response.status = 200
        /\ \A x \in ProbeIdentifiers :
              WhereHolds(FirstSelect.where, ProbeRow(x))
                <=> \A i \in 1..Len(Params) : IdentOccMatches(Params[i][2], x)

\* the same statement for the occurrences without '%' and '_'
C15_HoldsWithoutWildcards == ~NoWildcards \/ C15_IdentifierCases

\* a value that is empty or made of whitespace and commas only
IsBlankValue(v) == \A i \in 1..Len(v) : IsSpace(v[i]) \/ v[i] = ","
IsSearchOcc(it) == IsStringSearchParam(it[1]) \/ it[1] = QP.birthdate
NotBlankOcc(it) == ~(IsSearchOcc(it) /\ IsBlankValue(it[2]))

\* the request without its blank occurrences
WithoutBlanks == [request EXCEPT !.params = SelectSeq(Params, NotBlankOcc)]

HasBlankOcc == \E i \in 1..Len(Params) : ~NotBlankOcc(Params[i])

\* C17: an occurrence whose value is empty, or whitespace and commas only,
\* contributes no filter clause: the request selects the rows it selects
\* without the occurrence.
C17_BlankOccurrenceIgnored ==
    (Done /\ HasBlankOcc) =>
        /\ response.status = 200
        /\ dbQueries # <<>>
        /\ FirstSelect.matched = SelectIds(StringFilters(WithoutBlanks), Table)

\* the same statement for empty and comma-only values of the string
\* parameters
C17_HoldsForEmptyAndCommas ==
    (\E i \in 1..Len(Params) :
        \/ \E k \in 1..Len(Params[i][2]) : IsSpace(Params[i][2][k])
        \/ Params[i][1] = QP.birthdate)
    \/ C17_BlankOccurrenceIgnored

(***************************************************************************)
(* Claims about the text and the bind list of PDQmWhereBuilder.build       *)
(***************************************************************************)
\* the names @p0, @p1, ... in order
BindNames ==
    << <<"@", "p", "0">>,
       <<"@", "p", "1">>,
       <<"@", "p", "2">>,
       <<"@", "p", "3">>,
       <<"@", "p", "4">>,
       <<"@", "p", "5">>,
       <<"@", "p", "6">>,
       <<"@", "p", "7">>,
       <<"@", "p", "8">>,
       <<"@", "p", "9">>,
       <<"@", "p", "1", "0">>,
       <<"@", "p", "1", "1">>,
       <<"@", "p", "1", "2">>,
       <<"@", "p", "1", "3">>,
       <<"@", "p", "1", "4">>,
       <<"@", "p", "1", "5">>,
       <<"@", "p", "1", "6">>,
       <<"@", "p", "1", "7">>,
       <<"@", "p", "1", "8">>,
       <<"@", "p", "1", "9">>,
       <<"@", "p", "2", "0">>,
       <<"@", "p", "2", "1">>,
       <<"@", "p", "2", "2">>,
       <<"@", "p", "2", "3">> >>

IsDecimalDigit(c) == c \in {"0", "1", "2", "3", "4", "5", "6", "7", "8", "9"}

\* the positions of a text where a placeholder @p<digits> starts
PlaceholderStarts(t) ==
    {i \in 1..(Len(t) - 1) : t[i] = "@" /\ t[i + 1] = "p"}

\* the placeholder that starts at position i, with all of its digits
PlaceholderAt(t, i) ==
    LET n == CHOOSE m \in 0..(Len(t) - i - 1) :
                /\ \A k \in (i + 2)..(i + 1 + m) : IsDecimalDigit(t[k])
                /\ i + 2 + m > Len(t) \/ ~IsDecimalDigit(t[i + 2 + m])
    IN SubSeq(t, i, i + 1 + n)

\* which keys are present and how many tokens each has
Shape(q) == [k \in Keys |-> Len(_flatten_values(q[k]))]

\* the prefixes of the birthdate tokens, in order
BirthdatePrefixes(q) ==
    LET toks == _flatten_values(q["birthdate"])
    IN [i \in 1..Len(toks) |-> ClaimPrefix(toks[i])]

Compiled(k) == Len(built) >= k /\ built[k].kind = "ok"

\* the number of placeholders of b's text that refer to bind entry i
Refs(b, i) ==
    Cardinality({j \in PlaceholderStarts(b.sql) :
                    PlaceholderAt(b.sql, j) = BindNames[i]})

\* entry i of the bind list is named @p<i>
BindsNamed(b) == \A i \in 1..Len(b.params) : b.params[i][1] = BindNames[i]

\* every entry is referenced by exactly one placeholder
ReferencedOnce(b) == \A i \in 1..Len(b.params) : Refs(b, i) = 1

\* the birthdate tokens whose condition compares with one bound of the range
OneSided(q) ==
    {i \in 1..Len(BirthdatePrefixes(q)) :
        BirthdatePrefixes(q)[i] \notin {Eq, <<"n", "e">>}}

\* no entry is referenced twice, every placeholder refers to an entry, and
\* the entries without a placeholder are one per one-sided birthdate token
ReferencedAtMostOnce(b, q) ==
    /\ \A i \in 1..Len(b.params) : Refs(b, i) <= 1
    /\ \A j \in PlaceholderStarts(b.sql) :
          \E i \in 1..Len(b.params) : PlaceholderAt(b.sql, j) = BindNames[i]
    /\ Cardinality({i \in 1..Len(b.params) : Refs(b, i) = 0})
          = Cardinality(OneSided(q))

Input(k) == bq[IF k = 2 THEN 2 ELSE 1]

\* C2 as stated: the text depends only on which parameters are present and
\* how many tokens each has, so two inputs of the same shape yield
\* identical SQL text; compiling the same input twice yields the same
\* result; the bind list entry at index i is named @p<i> and is referenced
\* by exactly one placeholder of the text.
C2_SameShapeSameText ==
    /\ (Compiled(1) /\ Compiled(2) /\ Shape(bq[1]) = Shape(bq[2])) =>
            built[1].sql = built[2].sql
    /\ Len(built) = 3 => built[3] = built[1]
    /\ \A k \in 1..Len(built) :
          Compiled(k) => BindsNamed(built[k]) /\ ReferencedOnce(built[k])

\* C2: the text depends only on which parameters are present, how many
\* tokens each has and the prefix of each birthdate token, never on the
\* rest of a token value; compiling the same input twice yields the same
\* text and the same bind list; the bind list entry at index i is named
\* @p<i> and is referenced by at most one placeholder of the text, every
\* placeholder refers to an entry, and exactly one entry per lt, le, gt or
\* ge birthdate token is left without a placeholder.
C2_TextIndependentOfValues ==
    /\ (/\ Compiled(1) /\ Compiled(2) /\ Shape(bq[1]) = Shape(bq[2])
        /\ BirthdatePrefixes(bq[1]) = BirthdatePrefixes(bq[2])) =>
            built[1].sql = built[2].sql
    /\ Len(built) = 3 => built[3] = built[1]
    /\ \A k \in 1..Len(built) :
          Compiled(k) =>
            BindsNamed(built[k]) /\ ReferencedAtMostOnce(built[k], Input(k))

\* two different inputs of one shape were compiled into one text with
\* different bind lists, more than ten binds each
C2_Witness ==
    /\ Len(built) = 3
    /\ Compiled(1) /\ Compiled(2)
    /\ Shape(bq[1]) = Shape(bq[2])
    /\ BirthdatePrefixes(bq[1]) = BirthdatePrefixes(bq[2])
    /\ Len(built[1].params) > 10
    /\ built[1].params # built[2].params
    /\ built[1].sql = built[2].sql

\* the difference between the two statements: one-sided conditions aside,
\* every entry has its placeholder, and inputs of one shape that differ in
\* a prefix are the only ones with different texts
C2_HoldsForEqualPrefixes ==
    /\ \A k \in 1..Len(built) :
          (Compiled(k) /\ OneSided(Input(k)) = {}) => ReferencedOnce(built[k])
    /\ (/\ Compiled(1) /\ Compiled(2) /\ Shape(bq[1]) = Shape(bq[2])
        /\ built[1].sql # built[2].sql) =>
            BirthdatePrefixes(bq[1]) # BirthdatePrefixes(bq[2])

(***************************************************************************)
(* Claims about the comparisons and the grouping of PDQmWhereBuilder.build *)
(***************************************************************************)
\* the positions of a text where "COLLATE " starts, and the collation named
\* there (the characters up to the next blank)
CollateStarts(t) ==
    {i \in 1..(Len(t) - 7) : SubSeq(t, i, i + 7) = <<"C", "O", "L", "L", "A", "T", "E", " ">>}
CollationAt(t, i) ==
    LET n == CHOOSE m \in 0..(Len(t) - i - 7) :
                /\ \A k \in (i + 8)..(i + 7 + m) : t[k] # " "
                /\ i + 8 + m > Len(t) \/ t[i + 8 + m] = " "
    IN SubSeq(t, i + 8, i + 7 + n)

\* a collation whose name carries _CI ignores letter case, one whose name
\* carries _AI ignores accents; "e_acute" stands for U+00E9
CaseInsensitive(name) == Contains(name, <<"_", "C", "I">>)
AccentInsensitive(name) == Contains(name, <<"_", "A", "I">>)
Unaccent(c) == IF c = "e_acute" THEN "e" ELSE c
CollationKey(name, t) ==
    [i \in 1..Len(t) |->
        LET c == IF AccentInsensitive(name) THEN Unaccent(t[i]) ELSE t[i]
        IN IF CaseInsensitive(name) THEN LowerChar(c) ELSE c]
EqualUnder(name, a, b) == CollationKey(name, a) = CollationKey(name, b)

\* C16: every string comparison of the compiled conditions is made
\* case-insensitively and accent-sensitively: 'SMITH' matches 'smith', and
\* 'Jose' does not match a stored 'Jose' written with e acute.
C16_CaseInsensitiveAccentSensitive ==
    \A k \in 1..Len(built) :
        Compiled(k) =>
            \A i \in CollateStarts(built[k].sql) :
                /\ EqualUnder(CollationAt(built[k].sql, i),
                              <<"S", "M", "I", "T", "H">>, <<"s", "m", "i", "t", "h">>)
                /\ ~EqualUnder(CollationAt(built[k].sql, i),
                               <<"J", "o", "s", "e">>, <<"J", "o", "s", "e_acute">>)

\* the case-insensitive half of the statement
C16_HoldsForLetterCase ==
    \A k \in 1..Len(built) :
        Compiled(k) =>
            \A i \in CollateStarts(built[k].sql) :
                EqualUnder(CollationAt(built[k].sql, i),
                           <<"S", "M", "I", "T", "H">>, <<"s", "m", "i", "t", "h">>)

\* family alone, given as a list of n values of one token each
FamilyOccurrences(qp, n) ==
    /\ Present(qp) = {"family"}
    /\ qp["family"].kind = "list"
    /\ Len(qp["family"].items) = n
    /\ Len(_flatten_values(qp["family"])) = n

\* C18: build treats each occurrence of family as its own group: given two
\* occurrences, SMITH and Jansen, the two conditions are AND-ed and not
\* OR-ed.
C18_FamilyOccurrencesAnded ==
    \A k \in 1..Len(built) :
        (Compiled(k) /\ FamilyOccurrences(Input(k), 2)) =>
            /\ Contains(built[k].sql, SQL.and)
            /\ ~Contains(built[k].sql, SQL.or)

\* the half of the statement about one occurrence: its comma-joined values
\* are OR-ed, and a single value has neither AND nor OR
C18_HoldsWithinOneOccurrence ==
    \A k \in 1..Len(built) :
        (Compiled(k) /\ Present(Input(k)) = {"family"}
                     /\ Input(k)["family"].kind = "str") =>
            /\ ~Contains(built[k].sql, SQL.and)
            /\ Contains(built[k].sql, SQL.or)
                 <=> Len(_flatten_values(Input(k)["family"])) > 1

(***************************************************************************)
(* Claims about the TLS mode of _connect                                   *)
(***************************************************************************)
\* the scheme of a URI: what stands before its first "://", surrounding
\* whitespace dropped, in lower case
SchemeOf(uri) ==
    LET u == Strip(uri)
        at == {i \in 1..(Len(u) - 2) : SubSeq(u, i, i + 2) = URI.sep}
    IN IF at = {} THEN <<>>
       ELSE Lower(SubSeq(u, 1, (CHOOSE i \in at : \A j \in at : i <= j) - 1))

UsesLdaps(uri) == SchemeOf(uri) = <<"l", "d", "a", "p", "s">>

\* C21: the client is created without StartTLS when the URI uses ldaps://,
\* otherwise with StartTLS alone when both flags are set, otherwise with
\* the flags as configured; never with both modes, and never with StartTLS
\* on an ldaps:// URI.
C21_EffectiveTlsMode ==
    client # NoClient =>
      LET ldaps == UsesLdaps(settings.ldap_uri)
          both == settings.ldap_use_ssl /\ settings.ldap_start_tls
      IN /\ ldaps => ~client.start_tls
         /\ (~ldaps /\ both) => (client.start_tls /\ ~client.use_ssl)
         /\ (~ldaps /\ ~both) =>
               /\ client.start_tls = settings.ldap_start_tls
               /\ client.use_ssl = settings.ldap_use_ssl
         /\ ~(client.use_ssl /\ client.start_tls)
         /\ client.tls = client.start_tls
         /\ ~(client.tls /\ UsesLdaps(client.uri))

\* both flags set on an upper-case ldaps:// URI surrounded by whitespace
C21_Witness ==
    /\ client # NoClient
    /\ settings.ldap_uri = <<"\t", "L", "D", "A", "P", "S", ":", "/", "/", "h", "\n">>
    /\ settings.ldap_use_ssl /\ settings.ldap_start_tls
    /\ ~client.start_tls /\ client.use_ssl

(***************************************************************************)
(* Claims about _effective_bind_dn                                         *)
(***************************************************************************)
\* where the placeholder {base} stands in a bind DN
BaseMarks(dn) ==
    {i \in 1..(Len(dn) - Len(DN.base) + 1) :
        SubSeq(dn, i, i + Len(DN.base) - 1) = DN.base}

\* the bind DN with the base DN in the place of every placeholder
Substituted(dn, base) ==
    Flatten([i \in 1..Len(dn) |->
               IF i \in BaseMarks(dn) THEN base
               ELSE IF \E k \in BaseMarks(dn) : k < i /\ i < k + Len(DN.base)
                    THEN <<>>
                    ELSE <<dn[i]>>])

\* C22: _effective_bind_dn(base) is no DN for an unset or empty bind DN,
\* the bind DN with every {base} replaced by base when it has the
\* placeholder, '<bind DN>,<base>' when it has no comma, and the bind DN
\* itself otherwise.
C22_EffectiveBindDn ==
    retv # NotCalled =>
      LET dn == settings.ldap_bind_dn IN
      IF dn = None \/ dn = <<>> THEN retv = None
      ELSE IF BaseMarks(dn) # {} THEN retv = Substituted(dn, argv)
      ELSE IF \A i \in 1..Len(dn) : dn[i] # ","
           THEN retv = dn \o <<",">> \o argv
           ELSE retv = dn

\* 'cn={base},o={base}' with base 'dc=ex' gives 'cn=dc=ex,o=dc=ex'
C22_Witness ==
    /\ settings.ldap_bind_dn =
         <<"c", "n", "=">> \o DN.base \o <<",", "o", "=">> \o DN.base
    /\ argv = DN.dcex
    /\ retv = <<"c", "n", "=">> \o DN.dcex \o <<",", "o", "=">> \o DN.dcex

(***************************************************************************)
(* Claims about _discover_base_dn                                          *)
(***************************************************************************)
\* the namingContexts values of the RootDSE entry the search returned
NamingContexts == IF argv = <<>> THEN <<>> ELSE argv[1]

\* the positions of the values that are dc=HPD in some letter case
HpdAt == {i \in 1..Len(NamingContexts) : Lower(NamingContexts[i]) = DN.dchpd}

\* C24: with several namingContexts values _discover_base_dn returns the
\* one equal to dc=HPD in any letter case, wherever it stands, and the first
\* value if there is none; with one value that value; with no entry or no
\* value nothing.
C24_DiscoverChoice ==
    retv # NotCalled =>
      IF NamingContexts = <<>> THEN retv = None
      ELSE IF Len(NamingContexts) = 1 THEN retv = NamingContexts[1]
      ELSE IF HpdAt # {} THEN retv \in {NamingContexts[i] : i \in HpdAt}
      ELSE retv = NamingContexts[1]

\* dc=hpd in the last of three positions is chosen
C24_Witness ==
    /\ argv = << <<DN.dcex, <<"d", "c", "=", "y">>, DN.dchpd>> >>
    /\ retv = DN.dchpd

(***************************************************************************)
(* Claims about the resolution of the base DN                              *)
(***************************************************************************)
\* the configured base DN is the literal auto, in any letter case
ConfiguredAuto == Lower(settings.ldap_base_dn) = DN.auto

\* the base DNs a RootDSE answer of the model can give
Discoverable ==
    {_discover_base_dn(ans) : ans \in RootDseAnswers} \ {None, <<>>}

\* C23: a configured base DN other than auto is used verbatim by
\* _resolve_base_root, _resolve_base_root_cached and _connect and no RootDSE
\* lookup is made; with auto, in any letter case, the base DN comes from
\* the RootDSE search.
C23_StaticBaseVerbatim ==
    \A t \in workers :
      IF ConfiguredAuto
      THEN /\ loc[t].base_root \in {None} \cup Discoverable
           /\ cachedOut \in {NotCalled, Http502} \cup Discoverable
           /\ loc[t].base_root # None => lookups >= 1
      ELSE /\ lookups = 0
           /\ loc[t].base_root \in {None, settings.ldap_base_dn}
           /\ cachedOut \in {NotCalled, settings.ldap_base_dn}
           /\ (pc[t] = "bind" /\ NeedsBaseForBind(settings)) =>
                 loc[t].eff_dn =
                   _effective_bind_dn(settings, settings.ldap_base_dn)

\* the same statement for the base DNs that are not empty
C23_HoldsForNonEmptyBase ==
    settings.ldap_base_dn = <<>> \/ C23_StaticBaseVerbatim

(***************************************************************************)
(* Claims about paging                                                     *)
(***************************************************************************)
\* the statements of the latest page
LastSelect == dbQueries[Len(dbQueries) - 1]
LastCount == dbQueries[Len(dbQueries)]

\* a parameter was given, and the value that counts
Given(name) == _param_values(request, name) # <<>>
ValueOf(name) == QpGet(request, name, <<>>)

\* the number a _count or _page value denotes, if it denotes one: a run of
\* decimal digits, and the signed, padded and grouped forms int() accepts
NumberOf(v) ==
    CASE v = <<"-", "1">> -> [num |-> TRUE, n |-> 0 - 1]
      [] v \in {<<" ", "2">>, <<"+", "2">>, <<"2", " ">>, <<"0", "_", "2">>} ->
            [num |-> TRUE, n |-> 2]
      [] v = <<"ar3">> -> [num |-> TRUE, n |-> 3]
      [] v # <<>> /\ \A i \in 1..Len(v) : v[i] \in AsciiDigits ->
            [num |-> TRUE, n |-> IntOf(v)]
      [] OTHER -> [num |-> FALSE, n |-> 0]

ClaimedCount ==
    LET x == NumberOf(ValueOf(QP.count)) IN
    IF ~Given(QP.count) \/ ~x.num THEN 20
    ELSE IF x.n < 1 THEN 1 ELSE IF x.n > 100 THEN 100 ELSE x.n

ClaimedPage ==
    LET x == NumberOf(ValueOf(QP.page)) IN
    IF ~Given(QP.page) \/ ~x.num \/ x.n < 1 THEN 1 ELSE x.n

\* C25: the effective count is in 1..100 (below 1 gives 1, above 100 gives
\* 100, missing or not a number gives 20), the effective page is at least 1
\* (below 1, not a number or missing gives 1), the request is answered with
\* a Bundle and the offset (page - 1) * count is not negative.
C25_PagingBounds ==
    Done =>
      /\ response.status = 200
      /\ LastSelect.limit = ClaimedCount
      /\ LastSelect.limit \in 1..100
      /\ ClaimedPage >= 1
      /\ LastSelect.offset = (ClaimedPage - 1) * ClaimedCount
      /\ LastSelect.offset >= 0

\* _count=200 with _page=-1 reads the first 100 rows
C25_Witness ==
    /\ Done
    /\ Given(QP.count) /\ ValueOf(QP.count) = <<"2", "0", "0">>
    /\ Given(QP.page) /\ ValueOf(QP.page) = <<"-", "1">>
    /\ LastSelect.limit = 100
    /\ LastSelect.offset = 0

\* the SELECT statements of the pages requested so far, and their rows
PageCount == Len(dbQueries) \div 2
PageSelect(k) == dbQueries[2 * k - 1]
Visited == Flatten([k \in 1..PageCount |-> PageSelect(k).rows])

Ascending(ids) ==
    \A i, j \in 1..Len(ids) : i < j => IntOf(ids[i]) < IntOf(ids[j])

IsPrefix(a, b) == Len(a) <= Len(b) /\ SubSeq(b, 1, Len(a)) = a

\* C26: the rows of a page are in ascending id order; Bundle.total is
\* counted with the predicate of the SELECT and is the same on every page;
\* a next link is present exactly when rows remain after the page; and
\* following the next links from page 1 visits every row that matches the
\* original query exactly once and then ends.
C26_PagingPartition ==
    Done =>
      /\ Ascending(LastSelect.rows)
      /\ LastCount.where = LastSelect.where
      /\ response.total = Len(LastSelect.matched)
      /\ response.total = Len(PageSelect(1).matched)
      /\ response.next <=>
           (LastSelect.offset + Len(LastSelect.rows) < response.total)
      /\ PageSelect(1).offset = 0 =>
           /\ IsPrefix(Visited, PageSelect(1).matched)
           /\ ~response.next => Visited = PageSelect(1).matched

\* every page was selected with the predicate of the first one
PredicateKept ==
    \A k \in 1..PageCount : PageSelect(k).where = PageSelect(1).where

\* the same statement for the walks whose next links keep the predicate
C26_HoldsWhilePredicateKept == ~PredicateKept \/ C26_PagingPartition

(***************************************************************************)
(* Claims about the API key                                                *)
(***************************************************************************)
\* an API key is configured; the latest request of a thread asks for a
\* search; it carries the configured key
KeyConfigured == settings.api_key # None /\ settings.api_key # <<>>
AsksSearch(t) == httpReq[t].route \in {Route.post, Route.get}
HasKey(t) == httpReq[t].x_api_key = settings.api_key

\* a thread is inside hpd_search only for a search request that was let in
ServedOnlyWithKey ==
    \A t \in workers :
        pc[t] # "idle" => (AsksSearch(t) /\ (KeyConfigured => HasKey(t)))

\* C27: with a configured API key a /hpd/search request, GET or POST,
\* without the X-API-Key header or with another value is answered 401 and
\* no LDAP connection is attempted for it; with the right key it is served;
\* /health is served whatever the key; without a configured key every
\* request is served.
C27_ApiKeyGuard ==
    [][ /\ ServedOnlyWithKey'
        /\ \A t \in workers :
             (calls' = calls + 1 /\ pc[t] = "idle") =>
               /\ (AsksSearch(t)' /\ KeyConfigured /\ ~HasKey(t)') =>
                     /\ outcome'[t] = 401
                     /\ pc'[t] = "idle"
                     /\ loc' = loc
                     /\ lookups' = lookups
               /\ (AsksSearch(t)' /\ (~KeyConfigured \/ HasKey(t)')) =>
                     pc'[t] = "connect"
               /\ ~AsksSearch(t)' => outcome'[t] = 200
      ]_vars

\* a POST without the header was answered 401 while a key is configured
C27_Witness ==
    /\ KeyConfigured
    /\ httpReq[1] = [route |-> Route.post, x_api_key |-> None]
    /\ outcome[1] = 401
    /\ pc[1] = "idle"
    /\ lookups = 0

(***************************************************************************)
(* Claims about the connections of a search request                        *)
(***************************************************************************)
\* the step ends the request of thread t
Completes(t) == pc[t] # "idle" /\ pc'[t] = "idle"

\* a request ends only through the close of the connections it has open,
\* and the close of the session connection leaves the outcome as it was
SessionClosed(t) ==
    /\ Completes(t) =>
         /\ loc[t].conn_open => pc[t] = "close"
         /\ loc[t].anon_open => pc[t] = "anon_close"
         /\ pc[t] = "close" => outcome'[t] = loc[t].status
    /\ pc'[t] \in {"bind_dn", "bind"} => ~loc'[t].anon_open

\* the close of the anonymous connection leaves the outcome as it was: the
\* error of a failed discovery, or none, and then _connect goes on
AnonCloseKeepsOutcome(t) ==
    pc[t] = "anon_close" =>
       IF loc[t].status # 0
       THEN Completes(t) /\ outcome'[t] = loc[t].status
       ELSE pc'[t] = "bind_dn"

\* C28: every connection opened for a search request is closed before the
\* request completes: the anonymous one whether discovery succeeds or fails,
\* the session one after a search, after a missing OU and after an error of
\* the resolution or of a search; an exception of close itself never
\* replaces the outcome of the request.
C28_ConnectionsClosed ==
    [][ \A t \in workers : SessionClosed(t) /\ AnonCloseKeepsOutcome(t) ]_vars

\* the same statement without the close of the anonymous connection
C28_HoldsForSessionConnection ==
    [][ \A t \in workers : SessionClosed(t) ]_vars

(***************************************************************************)
(* Claims about the bind DN of _connect                                    *)
(***************************************************************************)
\* the configured bind DN has the placeholder or is a bare RDN
BindNeedsBase ==
    LET dn == settings.ldap_bind_dn IN
    /\ dn # None /\ dn # <<>>
    /\ BaseMarks(dn) # {} \/ \A i \in 1..Len(dn) : dn[i] # ","

\* the bind DN built from a base DN
ResolvedWith(base) ==
    LET dn == settings.ldap_bind_dn IN
    IF BaseMarks(dn) # {} THEN Substituted(dn, base) ELSE dn \o <<",">> \o base

\* the base DNs a bind DN may be built from: the static value, or what a
\* successful RootDSE discovery returned
BasesAvailable ==
    IF ~ConfiguredAuto /\ settings.ldap_base_dn # <<>>
    THEN {settings.ldap_base_dn}
    ELSE IF hits >= 1 THEN Discoverable ELSE {}

\* thread t is about to connect with credentials
AttemptsBind(t) == pc[t] = "bind" /\ loc[t].eff_dn \notin {None, <<>>}

BindResolved(t) ==
    (AttemptsBind(t) /\ BindNeedsBase) =>
       /\ \E b \in BasesAvailable : loc[t].eff_dn = ResolvedWith(b)
       /\ BaseMarks(loc[t].eff_dn) = {}

\* without a base DN the call ends with 502 before credentials are set
NoBaseIs502(t) ==
    (/\ pc[t] = "bind_dn"
     /\ BindNeedsBase
     /\ ConfiguredAuto \/ settings.ldap_base_dn = <<>>
     /\ _DISCOVERED_BASE \in {None, <<>>}
     /\ pc'[t] # pc[t]) =>
       /\ pc'[t] = "idle"
       /\ outcome'[t] = 502
       /\ loc'[t].eff_dn = None

\* C29: when _connect attempts an authenticated bind with a bind DN that has
\* {base} or is a bare RDN, the DN it supplies was built from the static
\* base DN or from a successfully discovered one; when there is no such base
\* DN it fails with 502 without credentials and without the connection.
C29_BindDnResolved ==
    [][ \A t \in workers : BindResolved(t)' /\ NoBaseIs502(t) ]_vars

\* the bare RDN is bound as 'cn=r,dc=ex' after the discovery of dc=ex
C29_Witness ==
    /\ settings.ldap_base_dn = DN.auto
    /\ settings.ldap_bind_dn = DN.rdn
    /\ pc[1] = "bind"
    /\ lookups = 1
    /\ loc[1].eff_dn = DN.rdn \o <<",">> \o DN.dcex


(***************************************************************************)
(* Claims about telecom tokens with a system                               *)
(***************************************************************************)
\* the telecom occurrences of the request that have a non-empty token
TelecomOccurrences ==
    {i \in 1..Len(Params) :
        Params[i][1] = QP.telecom /\ ClaimValues(Params[i][2]) # <<>>}

\* one of the tokens of the occurrence matches the row: the columns of the
\* token's system contain its value, and an unknown system has no column
OccurrenceMatches(i, row) ==
    \E k \in 1..Len(ClaimValues(Params[i][2])) :
        ContainsIn(TelecomCols(ClaimValues(Params[i][2])[k]),
                   TelecomValue(ClaimValues(Params[i][2])[k]), row)

\* C30: every telecom occurrence with a non-empty token restricts the
\* result: each selected row is matched by one of its tokens, a token
\* 'system|value' matching only rows whose columns of that system contain
\* the value and a token of another system than phone and email matching no
\* row, so that no such occurrence is dropped.
C30_TelecomRestricts ==
    Done =>
      \A i \in TelecomOccurrences :
          \A row \in Rows : row.id \in Matched => OccurrenceMatches(i, row)

\* the same statement for the requests whose telecom tokens have the system
\* phone or email, or none
C30_HoldsForPhoneAndEmail == UnknownSystemToken \/ C30_TelecomRestricts

\* a search by phone|1234 that has selected rows
C30_PhoneSearchAnswered ==
    /\ Done /\ TelecomOccurrences # {} /\ ~UnknownSystemToken
    /\ \E i \in TelecomOccurrences : HasBar(Params[i][2])
    /\ Matched # {}

=============================================================================
